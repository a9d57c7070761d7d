------------------------ MODULE ServerSession_proofs ------------------------
(***************************************************************************)
(* Proofs about the managed servers: the one that the panel starts, for    *)
(* any number of starts, any models and any capacity of the application    *)
(* channel, and the detached ones of the runtime profiles, for any         *)
(* commands, profiles and pids.                                            *)
(*                                                                         *)
(* The first argument follows a process through its owners: the task of    *)
(* its start, then the shared child cell, which some handle keeps in       *)
(* reach, then the loop that took the child out of the cell to stop it.    *)
(* The second one says of each command what its place tells about its      *)
(* copy and its child, whatever the others do, and then, for as long as    *)
(* one lmml process works at a time, what the state file records.          *)
(***************************************************************************)
EXTENDS ServerSession, RuntimeProfiles, SequenceTheorems, TLAPS

\* What the place of a task says of its process and of its monitor.
Progress ==
    \A s \in Start :
        /\ task[s] \in {"None", "Probing", "Checking", "Spawning", "Failing"} => ~Running(s)
        /\ task[s] \notin {"Returning", "Done"} => monitor[s] = "Off"
        /\ monitor[s] = "Reporting" => ~Running(s)

\* The loop has something left to do only on its way there, holds a handle
\* only while it stops the server, and launches only what never started.
LoopPlace ==
    /\ held # NoStart <=> at \in {"Stopping", "Reaping"}
    /\ after # Nothing => at \in {"Doing", "Stopping", "Reaping"}
    /\ after.do = "launch" => task[after.start] = "None"

\* The owner of a running process.
Owner(s) ==
    \/ InTask(s)
    \/ child[s] /\ Handled(s)
    \/ at = "Reaping" /\ held = s
    \/ missed[s]

Owned == at # "Exited" => \A s \in Start : Running(s) => Owner(s)

Inv == TypeOK /\ Progress /\ LoopPlace /\ Owned

-----------------------------------------------------------------------------
(* The channel.                                                            *)

LEMMA EventTypes ==
    /\ Note \in Event
    /\ \A k \in Key : KeyEvent(k) \in Event
    /\ \A x \in Status : StatusEvent(x) \in Event
    /\ \A s \in Start, ok \in BOOLEAN : Started(s, ok) \in Event
    /\ Started(NoStart, FALSE) \in Event
<1>1. Note \in Event
  BY DEF Event
<1>2. \A k \in Key : KeyEvent(k) \in Event
  BY DEF Event, KeyEvent
<1>3. \A x \in Status : StatusEvent(x) \in Event
  BY DEF Event, StatusEvent
<1>4. \A s \in Start, ok \in BOOLEAN : Started(s, ok) \in Event
  BY DEF Event, Started
<1>5. Started(NoStart, FALSE) \in Event
  BY DEF Event
<1> QED BY <1>1, <1>2, <1>3, <1>4, <1>5

LEMMA StartedReal ==
    ASSUME NEW s \in Start \union {NoStart}, Started(s, TRUE) \in Event
    PROVE  s \in Start
<1> DEFINE e == Started(s, TRUE)
<1>1. e.kind = "Started" /\ e.start = s /\ e.ok
  BY DEF Started
<1>2. e # Note /\ e # Started(NoStart, FALSE)
  BY DEF Note, Started
<1>3. e \in [kind : {"Key"}, key : Key] \union [kind : {"Status"}, status : Status]
              \union [kind : {"Started"}, start : Start, ok : BOOLEAN]
  BY <1>2 DEF Event
<1> QED BY <1>1, <1>3

LEMMA StartedDistinct ==
    ASSUME NEW s \in Start
    PROVE  /\ Note # Started(s, TRUE)
           /\ \A k \in Key : KeyEvent(k) # Started(s, TRUE)
           /\ \A x \in Status : StatusEvent(x) # Started(s, TRUE)
           /\ \A u \in Start \union {NoStart}, ok \in BOOLEAN :
                 Started(u, ok) = Started(s, TRUE) => u = s /\ ok
BY DEF Note, KeyEvent, StatusEvent, Started

LEMMA PushType ==
    ASSUME TypeOK, NEW e \in Event, Push(e)
    PROVE  queue' \in Seq(Event) /\ Len(queue') <= Capacity
<1>1. queue \in Seq(Event) /\ Len(queue) < Capacity /\ queue' = Append(queue, e)
  BY DEF TypeOK, Push, Room
<1>2. queue' \in Seq(Event) /\ Len(queue') = Len(queue) + 1
  BY <1>1, AppendProperties
<1>3. Len(queue) \in Nat
  BY <1>1, LenProperties
<1> QED BY <1>1, <1>2, <1>3, SessionAssumption

LEMMA PushKeeps ==
    ASSUME TypeOK, NEW e \in Event, Push(e), NEW s \in Start
    PROVE  /\ Queued(s) => Queued(s)'
           /\ e = Started(s, TRUE) => Queued(s)'
<1>1. queue \in Seq(Event) /\ queue' = Append(queue, e)
  BY DEF TypeOK, Push
<1>2. /\ Len(queue') = Len(queue) + 1
      /\ \A i \in 1..Len(queue) : queue'[i] = queue[i]
      /\ queue'[Len(queue) + 1] = e
  BY <1>1, AppendProperties
<1>3. Len(queue) \in Nat
  BY <1>1, LenProperties
<1>4. ASSUME Queued(s) PROVE Queued(s)'
  <2>1. PICK i \in 1..Len(queue) : queue[i] = Started(s, TRUE)
    BY <1>4 DEF Queued
  <2>2. i \in 1..Len(queue')
    BY <1>2, <1>3, <2>1
  <2>3. queue'[i] = queue[i]
    BY <1>2, <2>1
  <2> QED BY <2>1, <2>2, <2>3 DEF Queued
<1>5. ASSUME e = Started(s, TRUE) PROVE Queued(s)'
  <2>1. Len(queue) + 1 \in 1..Len(queue') /\ queue'[Len(queue) + 1] = Started(s, TRUE)
    BY <1>2, <1>3, <1>5
  <2> QED BY <2>1 DEF Queued
<1> QED BY <1>4, <1>5

LEMMA ReceiveType ==
    ASSUME TypeOK, NEW e, Receive(e)
    PROVE  e \in Event /\ queue' \in Seq(Event) /\ Len(queue') <= Capacity
<1>1. queue \in Seq(Event) /\ queue # <<>> /\ e = Head(queue) /\ queue' = Tail(queue)
  BY DEF TypeOK, Receive
<1>2. /\ Head(queue) \in Event /\ Tail(queue) \in Seq(Event)
      /\ Len(Tail(queue)) = Len(queue) - 1
  BY <1>1, HeadTailProperties
<1>3. Len(queue) \in Nat /\ Len(queue) <= Capacity
  BY <1>1, LenProperties DEF TypeOK
<1> QED BY <1>1, <1>2, <1>3, SessionAssumption

LEMMA ReceiveKeeps ==
    ASSUME TypeOK, NEW e, Receive(e), NEW s \in Start, Queued(s)
    PROVE  Queued(s)' \/ e = Started(s, TRUE)
<1>1. queue \in Seq(Event) /\ queue # <<>> /\ e = queue[1] /\ queue' = Tail(queue)
  BY DEF TypeOK, Receive
<1>2. /\ Len(Tail(queue)) = Len(queue) - 1
      /\ \A i \in 1..Len(Tail(queue)) : Tail(queue)[i] = queue[i + 1]
  BY <1>1, HeadTailProperties
<1>3. Len(queue) \in Nat
  BY <1>1, LenProperties
<1>4. PICK i \in 1..Len(queue) : queue[i] = Started(s, TRUE)
  BY DEF Queued
<1>5. CASE i = 1
  BY <1>1, <1>4, <1>5
<1>6. CASE i # 1
  <2>1. i - 1 \in 1..Len(Tail(queue))
    BY <1>2, <1>3, <1>4, <1>6
  <2>2. Tail(queue)[i - 1] = queue[(i - 1) + 1]
    BY <1>2, <2>1
  <2>3. (i - 1) + 1 = i
    BY <1>3, <1>4
  <2> QED BY <1>1, <1>4, <2>1, <2>2, <2>3 DEF Queued
<1> QED BY <1>5, <1>6

-----------------------------------------------------------------------------
(* Dropping handles.                                                       *)

\* What a drop of the handles in S does to processes.
DropEffect(S) ==
    /\ proc' \in [Start -> {"None", "Booting", "Up", "Gone"}]
    /\ missed' \in [Start -> BOOLEAN]
    /\ \A s \in Start : proc'[s] = proc[s] \/ (proc'[s] = "Gone" /\ child[s])
    /\ \A s \in Start : missed[s] => missed'[s]
    /\ \A s \in S : child[s] => proc'[s] = "Gone" \/ missed'[s]

LEMMA DropType ==
    ASSUME TypeOK, NEW S \in SUBSET Start, DropSome(S)
    PROVE  DropEffect(S)
<1>1. PICK M \in SUBSET S : DropHandles(S, M)
  BY DEF DropSome
<1>2. /\ proc' = [s \in Start |-> IF s \in S \ M /\ child[s] THEN "Gone" ELSE proc[s]]
      /\ missed' = [s \in Start |-> IF s \in M THEN TRUE ELSE missed[s]]
  BY <1>1 DEF DropHandles
<1>3. /\ proc \in [Start -> {"None", "Booting", "Up", "Gone"}]
      /\ missed \in [Start -> BOOLEAN]
  BY DEF TypeOK
<1>4. proc' \in [Start -> {"None", "Booting", "Up", "Gone"}] /\ missed' \in [Start -> BOOLEAN]
  BY <1>2, <1>3
<1>5. \A s \in Start : proc'[s] = proc[s] \/ (proc'[s] = "Gone" /\ child[s])
  BY <1>2
<1>6. \A s \in Start : missed[s] => missed'[s]
  BY <1>2
<1>7. \A s \in S : child[s] => proc'[s] = "Gone" \/ missed'[s]
  BY <1>2
<1> QED BY <1>4, <1>5, <1>6, <1>7 DEF DropEffect

LEMMA ReplaceType ==
    ASSUME TypeOK, NEW s \in Start \union {NoStart}, Replace(s)
    PROVE  /\ slot' = s
           /\ DropEffect(IF slot \in Start \ {s} THEN {slot} ELSE {})
<1>1. CASE slot \in Start \ {s}
  BY <1>1, DropType DEF Replace
<1>2. CASE slot \notin Start \ {s}
  BY <1>2 DEF Replace, DropEffect, TypeOK
<1> QED BY <1>1, <1>2 DEF Replace

-----------------------------------------------------------------------------
(* Types.                                                                  *)

LEMMA StopType ==
    ASSUME TypeOK, NEW then \in NextStep, StopThen(then)
    PROVE  /\ {held', slot'} \subseteq Start \union {NoStart}
           /\ after' \in NextStep
           /\ at' \in {"Doing", "Stopping"}
BY DEF StopThen, TypeOK

LEMMA StepTypes ==
    /\ Nothing \in NextStep
    /\ \A s \in Start : Launch(s) \in NextStep
    /\ \A e \in Event : Send(e) \in NextStep
    /\ [do |-> "quit"] \in NextStep
    /\ Resolved \subseteq NextStep
<1>1. Nothing \in NextStep /\ [do |-> "quit"] \in NextStep
  BY DEF NextStep, Nothing
<1>2. \A s \in Start : Launch(s) \in NextStep
  BY DEF NextStep, Launch
<1>3. \A e \in Event : Send(e) \in NextStep
  BY DEF NextStep, Send
<1>4. Resolved \subseteq NextStep
  BY <1>2, <1>3, EventTypes DEF Resolved, NewStart
<1> QED BY <1>1, <1>2, <1>3, <1>4

LEMMA AfterTypes ==
    ASSUME after \in NextStep
    PROVE  /\ after.do = "send" => after.event \in Event
           /\ after.do = "launch" => after.start \in Start
BY DEF NextStep

LEMMA InitType == Init => TypeOK
<1> SUFFICES ASSUME Init PROVE TypeOK
  OBVIOUS
<1>1. queue \in Seq(Event) /\ Len(queue) <= Capacity
  BY SessionAssumption, EmptySeq DEF Init
<1>2. lines \in [Start -> 0..MaxLines]
  BY SessionAssumption DEF Init
<1> QED BY <1>1, <1>2, StepTypes DEF Init, TypeOK, Status

\* The loop's steps keep the types.
LEMMA LoopType == ASSUME TypeOK, LoopStep PROVE TypeOK'
<1> USE EventTypes, StepTypes DEF TypeOK, serverVars
<1>1. CASE Tick
  <2>1. queue' \in Seq(Event) /\ Len(queue') <= Capacity
    BY <1>1, PushType DEF Tick
  <2> QED BY <1>1, <2>1 DEF Tick
<1>2. CASE Drained
  BY <1>2 DEF Drained
<1>3. ASSUME NEW e, Receive(e) PROVE e \in Event /\ queue' \in Seq(Event) /\ Len(queue') <= Capacity
  BY <1>3, ReceiveType
<1>4. CASE HandleNote
  BY <1>4, <1>3 DEF HandleNote, loopVars
<1>5. ASSUME NEW x \in Status, HandleStatus(x) PROVE TypeOK'
  <2>1. queue' \in Seq(Event) /\ Len(queue') <= Capacity
    BY <1>5, <1>3 DEF HandleStatus
  <2>2. /\ slot' \in Start \union {NoStart}
        /\ proc' \in [Start -> {"None", "Booting", "Up", "Gone"}]
        /\ missed' \in [Start -> BOOLEAN]
    <3>1. CASE x = "Stopped"
      BY <1>5, <3>1, ReplaceType DEF HandleStatus, DropEffect
    <3>2. CASE x # "Stopped"
      BY <1>5, <3>2 DEF HandleStatus
    <3> QED BY <3>1, <3>2
  <2> QED BY <1>5, <2>1, <2>2 DEF HandleStatus
<1>6. ASSUME NEW s \in Start \union {NoStart}, NEW ok \in BOOLEAN, HandleStarted(s, ok) PROVE TypeOK'
  <2>1. Started(s, ok) \in Event /\ queue' \in Seq(Event) /\ Len(queue') <= Capacity
    BY <1>6, <1>3 DEF HandleStarted
  <2>2. /\ slot' \in Start \union {NoStart}
        /\ proc' \in [Start -> {"None", "Booting", "Up", "Gone"}]
        /\ missed' \in [Start -> BOOLEAN]
    BY <1>6, ReplaceType DEF HandleStarted, DropEffect
  <2>3. panel' \in Status
    <3>1. CASE ok
      BY <1>6, <2>1, <3>1, StartedReal DEF HandleStarted
    <3>2. CASE ~ok
      BY <1>6, <3>2 DEF HandleStarted, Status
    <3> QED BY <3>1, <3>2
  <2> QED BY <1>6, <2>1, <2>2, <2>3 DEF HandleStarted
<1>7. CASE KeyStart
  BY <1>7, <1>3 DEF KeyStart, Status
<1>8. CASE KeyStop
  <2>1. StopThen(Send(StatusEvent("Stopped"))) /\ Send(StatusEvent("Stopped")) \in NextStep
    BY <1>8 DEF KeyStop, Status
  <2> QED BY <1>8, <1>3, <2>1, StopType DEF KeyStop, Status
<1>9. CASE KeySwap
  BY <1>9, <1>3 DEF KeySwap
<1>10. CASE KeyConfirm
  <2>1. queue' \in Seq(Event) /\ Len(queue') <= Capacity
    BY <1>10, <1>3 DEF KeyConfirm
  <2>2. {held', slot'} \subseteq Start \union {NoStart} /\ after' \in NextStep /\ at' \in {"Doing", "Stopping"}
    BY <1>10, StopType DEF KeyConfirm
  <2> QED BY <1>10, <2>1, <2>2 DEF KeyConfirm
<1>11. CASE KeyCancel
  BY <1>11, <1>3 DEF KeyCancel
<1>12. CASE KeyQuit
  <2>1. {held', slot'} \subseteq Start \union {NoStart} /\ after' \in NextStep /\ at' \in {"Doing", "Stopping"}
    BY <1>12, StopType DEF KeyQuit
  <2> QED BY <1>12, <1>3, <2>1 DEF KeyQuit
<1>13. CASE KeyIgnored
  BY <1>13, <1>3 DEF KeyIgnored, loopVars
<1>14. CASE StopTakes
  BY <1>14 DEF StopTakes
<1>15. CASE StopReaps
  BY <1>15 DEF StopReaps, Publish, Status
<1>16. CASE LoopSends
  <2>1. after.event \in Event
    BY <1>16, AfterTypes DEF LoopSends
  <2>2. queue' \in Seq(Event) /\ Len(queue') <= Capacity
    BY <1>16, <2>1, PushType DEF LoopSends
  <2> QED BY <1>16, <2>2 DEF LoopSends
<1>17. CASE LoopLaunches
  BY <1>17, AfterTypes DEF LoopLaunches
<1>18. CASE LoopQuits
  BY <1>18 DEF LoopQuits
<1>19. CASE Leave
  <2>1. /\ proc' \in [Start -> {"None", "Booting", "Up", "Gone"}]
        /\ missed' \in [Start -> BOOLEAN]
    BY <1>19, DropType DEF Leave, DropEffect
  <2>2. queue' \in Seq(Event) /\ Len(queue') <= Capacity
    BY <1>19, EmptySeq, SessionAssumption DEF Leave
  <2> QED BY <1>19, <2>1, <2>2 DEF Leave
<1> QED BY <1>1, <1>2, <1>4, <1>5, <1>6, <1>7, <1>8, <1>9, <1>10, <1>11, <1>12, <1>13, <1>14,
           <1>15, <1>16, <1>17, <1>18, <1>19 DEF LoopStep, HandleEvent

\* So do the steps of the tasks, processes, monitors and forwarders.
LEMMA StartType ==
    ASSUME TypeOK, NEW s \in Start,
           \/ TaskStep(s) \/ TaskSeesReady(s) \/ TaskTimesOut(s)
           \/ ProcBinds(s) \/ ProcCrashes(s) \/ LogLine(s) \/ WatcherStep(s)
    PROVE  TypeOK'
<1> USE EventTypes DEF TypeOK, loopVars, Goto
<1>1. ASSUME NEW e \in Event, Push(e) PROVE queue' \in Seq(Event) /\ Len(queue') <= Capacity
  BY <1>1, PushType
<1>2. CASE TaskProbes(s)
  BY <1>1, <1>2 DEF TaskProbes
<1>3. CASE TaskChecksPort(s)
  BY <1>3 DEF TaskChecksPort
<1>4. CASE TaskSpawns(s)
  BY <1>4 DEF TaskSpawns
<1>5. CASE TaskVerifies(s)
  BY <1>5 DEF TaskVerifies
<1>6. CASE TaskAdopts(s)
  BY <1>6 DEF TaskAdopts, Publish, Status
<1>7. CASE TaskCleans(s)
  BY <1>7 DEF TaskCleans
<1>8. CASE TaskReturns(s)
  BY <1>1, <1>8 DEF TaskReturns
<1>9. CASE TaskSeesReady(s)
  BY <1>9 DEF TaskSeesReady
<1>10. CASE TaskTimesOut(s)
  BY <1>10 DEF TaskTimesOut
<1>11. CASE ProcBinds(s)
  BY <1>11 DEF ProcBinds
<1>12. CASE ProcCrashes(s)
  BY <1>12 DEF ProcCrashes
<1>13. CASE LogLine(s)
  BY <1>1, <1>13, SessionAssumption DEF LogLine
<1>14. CASE MonitorLooks(s)
  BY <1>14 DEF MonitorLooks
<1>15. CASE MonitorFails(s)
  BY <1>15 DEF MonitorFails, Publish, Status
<1>16. CASE MonitorReports(s)
  BY <1>16 DEF MonitorReports, Publish, Status
<1>17. CASE ForwarderSees(s)
  BY <1>17 DEF ForwarderSees
<1>18. CASE ForwarderSends(s)
  BY <1>1, <1>18 DEF ForwarderSends
<1>19. CASE ForwarderEnds(s)
  BY <1>19 DEF ForwarderEnds
<1> QED BY <1>2, <1>3, <1>4, <1>5, <1>6, <1>7, <1>8, <1>9, <1>10, <1>11, <1>12, <1>13, <1>14,
           <1>15, <1>16, <1>17, <1>18, <1>19 DEF TaskStep, WatcherStep

LEMMA StutterType == ASSUME TypeOK, UNCHANGED vars PROVE TypeOK'
BY DEF TypeOK, vars, loopVars, serverVars

\* Every reachable state is well typed: in particular the channel never holds
\* more events than it has room for.
THEOREM TypeCorrect == Spec => []TypeOK
<1>1. TypeOK /\ [Next]_vars => TypeOK'
  BY LoopType, StartType, StutterType DEF Next
<1> QED BY <1>1, InitType, PTL DEF Spec

-----------------------------------------------------------------------------
(* Ownership.                                                              *)

LEMMA InitInv == Init => Inv
<1> SUFFICES ASSUME Init PROVE Inv
  OBVIOUS
<1>1. TypeOK
  BY InitType
<1>2. Progress
  BY DEF Init, Progress, Running
<1>3. LoopPlace
  BY DEF Init, LoopPlace, Nothing
<1>4. Owned
  BY DEF Init, Owned, Running
<1> QED BY <1>1, <1>2, <1>3, <1>4 DEF Inv

LEMMA SameQueue ==
    ASSUME queue' = queue, NEW s \in Start, Queued(s) PROVE Queued(s)'
BY DEF Queued

\* A step takes nothing from the owner of s.
Keeps(s) ==
    /\ InTask(s) => InTask(s)'
    /\ child'[s] = child[s]
    /\ Handled(s) => Handled(s)'
    /\ at = "Reaping" /\ held = s => at' = "Reaping" /\ held' = s
    /\ missed[s] => missed'[s]

LEMMA OwnerKept ==
    ASSUME NEW s \in Start, Owner(s), Keeps(s)
    PROVE  Owner(s)'
BY DEF Owner, Keeps

\* Ownership is kept by a step that starts no process and takes nothing from
\* the owner of one that goes on running.
LEMMA OwnedKept ==
    ASSUME Owned, at' # "Exited" => at # "Exited",
           at # "Exited" =>
               \A s \in Start : Running(s)' => Owner(s)' \/ (Running(s) /\ Keeps(s))
    PROVE  Owned'
BY OwnerKept DEF Owned

\* Every step of a start leaves ownership, or passes it on.
LEMMA StartInv ==
    ASSUME Inv, NEW s \in Start,
           \/ TaskStep(s) \/ TaskSeesReady(s) \/ TaskTimesOut(s)
           \/ ProcBinds(s) \/ ProcCrashes(s) \/ LogLine(s) \/ WatcherStep(s)
    PROVE  Progress' /\ LoopPlace' /\ Owned'
<1> USE DEF Inv, loopVars, Goto
<1>0. /\ task \in [Start -> {"None", "Probing", "Checking", "Spawning", "Waiting", "Verifying",
                           "Verified", "Cleaning", "Failing", "Returning", "Done"}]
      /\ proc \in [Start -> {"None", "Booting", "Up", "Gone"}]
      /\ child \in [Start -> BOOLEAN]
      /\ monitor \in [Start -> {"Off", "On", "Reporting"}]
  BY DEF TypeOK
<1>1. TypeOK'
  BY StartType
<1>2. LoopPlace'
  <2>1. UNCHANGED <<at, after, held>>
    BY DEF TaskStep, TaskProbes, TaskChecksPort, TaskSpawns, TaskVerifies, TaskAdopts, TaskCleans,
           TaskReturns, TaskSeesReady, TaskTimesOut, ProcBinds, ProcCrashes, LogLine, WatcherStep,
           MonitorLooks, MonitorFails, MonitorReports, ForwarderSees, ForwarderSends, ForwarderEnds
  <2>2. \A u \in Start : task[u] = "None" => task'[u] = "None"
    BY <1>0
       DEF TaskStep, TaskProbes, TaskChecksPort, TaskSpawns, TaskVerifies, TaskAdopts, TaskCleans,
           TaskReturns, TaskSeesReady, TaskTimesOut, ProcBinds, ProcCrashes, LogLine, WatcherStep,
           MonitorLooks, MonitorFails, MonitorReports, ForwarderSees, ForwarderSends, ForwarderEnds
  <2>3. after.do = "launch" => after.start \in Start
    BY AfterTypes DEF TypeOK
  <2> QED BY <2>1, <2>2, <2>3 DEF LoopPlace
<1>3. ASSUME NEW e \in Event, Push(e) PROVE \A u \in Start : Queued(u) => Queued(u)'
  BY <1>3, PushKeeps
<1>4. ASSUME UNCHANGED queue PROVE \A u \in Start : Queued(u) => Queued(u)'
  BY <1>4, SameQueue
<1> USE EventTypes
<1>5. CASE TaskProbes(s)
  <2>1. Progress'
    BY <1>0, <1>5 DEF TaskProbes, Progress, Running
  <2>2. \A u \in Start : Queued(u) => Queued(u)'
    BY <1>3, <1>5 DEF TaskProbes
  <2>3. \A u \in Start : Running(u)' => Running(u) /\ Keeps(u)
    BY <1>0, <1>5, <2>2 DEF TaskProbes, Running, Keeps, Handled, InTask
  <2> QED BY <1>5, <2>1, <2>3, OwnedKept, <1>2 DEF TaskProbes
<1>6. CASE TaskChecksPort(s)
  <2>1. Progress'
    BY <1>0, <1>6 DEF TaskChecksPort, Progress, Running
  <2>2. \A u \in Start : Queued(u) => Queued(u)'
    BY <1>4, <1>6 DEF TaskChecksPort
  <2>3. \A u \in Start : Running(u)' => Running(u) /\ Keeps(u)
    BY <1>0, <1>6, <2>2 DEF TaskChecksPort, Running, Keeps, Handled, InTask
  <2> QED BY <1>6, <2>1, <2>3, OwnedKept, <1>2 DEF TaskChecksPort
<1>7. CASE TaskSpawns(s)
  <2>1. Progress'
    BY <1>0, <1>7 DEF TaskSpawns, Progress, Running
  <2>2. \A u \in Start : Queued(u) => Queued(u)'
    BY <1>4, <1>7 DEF TaskSpawns
  <2>4. Running(s)' => Owner(s)'
    <3>1. CASE task[s] = "Spawning" /\ task' = [task EXCEPT ![s] = "Waiting"]
      BY <1>0, <3>1 DEF Owner, InTask
    <3>2. CASE task[s] = "Spawning" /\ UNCHANGED proc
      BY <3>2 DEF Progress, Running
    <3> QED BY <1>7, <3>1, <3>2 DEF TaskSpawns
  <2>5. \A u \in Start \ {s} : Running(u)' => Running(u) /\ Keeps(u)
    BY <1>0, <1>7, <2>2 DEF TaskSpawns, Running, Keeps, Handled, InTask
  <2>3. \A u \in Start : Running(u)' => Owner(u)' \/ (Running(u) /\ Keeps(u))
    BY <2>4, <2>5
  <2> QED BY <1>7, <2>1, <2>3, OwnedKept, <1>2 DEF TaskSpawns
<1>8. CASE TaskVerifies(s)
  <2>1. Progress'
    BY <1>0, <1>8 DEF TaskVerifies, Progress, Running
  <2>2. \A u \in Start : Queued(u) => Queued(u)'
    BY <1>4, <1>8 DEF TaskVerifies
  <2>3. \A u \in Start : Running(u)' => Running(u) /\ Keeps(u)
    BY <1>0, <1>8, <2>2 DEF TaskVerifies, Running, Keeps, Handled, InTask
  <2> QED BY <1>8, <2>1, <2>3, OwnedKept, <1>2 DEF TaskVerifies
<1>9. CASE TaskAdopts(s)
  <2>1. Progress'
    BY <1>0, <1>9 DEF TaskAdopts, Progress, Running, Publish
  <2>2. \A u \in Start : Queued(u) => Queued(u)'
    BY <1>4, <1>9 DEF TaskAdopts
  <2>4. Owner(s)'
    BY <1>0, <1>9 DEF TaskAdopts, Owner, Handled
  <2>5. \A u \in Start \ {s} : Running(u)' => Running(u) /\ Keeps(u)
    BY <1>0, <1>9, <2>2 DEF TaskAdopts, Running, Keeps, Handled, InTask
  <2>3. \A u \in Start : Running(u)' => Owner(u)' \/ (Running(u) /\ Keeps(u))
    BY <2>4, <2>5
  <2> QED BY <1>9, <2>1, <2>3, OwnedKept, <1>2 DEF TaskAdopts
<1>10. CASE TaskCleans(s)
  <2>1. Progress'
    BY <1>0, <1>10 DEF TaskCleans, Progress, Running
  <2>2. \A u \in Start : Queued(u) => Queued(u)'
    BY <1>4, <1>10 DEF TaskCleans
  <2>4. ~Running(s)'
    BY <1>0, <1>10 DEF TaskCleans, Running
  <2>5. \A u \in Start \ {s} : Running(u)' => Running(u) /\ Keeps(u)
    BY <1>0, <1>10, <2>2 DEF TaskCleans, Running, Keeps, Handled, InTask
  <2>3. \A u \in Start : Running(u)' => Owner(u)' \/ (Running(u) /\ Keeps(u))
    BY <2>4, <2>5
  <2> QED BY <1>10, <2>1, <2>3, OwnedKept, <1>2 DEF TaskCleans
<1>11. CASE TaskReturns(s)
  <2>1. Progress'
    BY <1>0, <1>11 DEF TaskReturns, Progress, Running
  <2>2. \A u \in Start : Queued(u) => Queued(u)'
    BY <1>3, <1>11 DEF TaskReturns
  <2>4. at # "Exited" /\ Running(s)' => Owner(s)'
    <3>1. CASE Push(Started(s, TRUE)) /\ task[s] = "Returning"
      <4>1. Queued(s)'
        BY <3>1, PushKeeps
      <4>2. UNCHANGED <<proc, child, at, held, missed>>
        BY <1>11 DEF TaskReturns
      <4>3. at # "Exited" /\ Running(s) => child[s] \/ (at = "Reaping" /\ held = s) \/ missed[s]
        BY <3>1 DEF Owned, Owner, InTask
      <4> QED BY <4>1, <4>2, <4>3 DEF Owner, Handled, Running
    <3>2. CASE task[s] = "Failing"
      BY <1>11, <3>2 DEF TaskReturns, Progress, Running
    <3> QED BY <1>11, <3>1, <3>2 DEF TaskReturns
  <2>5. \A u \in Start \ {s} : Running(u)' => Running(u) /\ Keeps(u)
    BY <1>0, <1>11, <2>2 DEF TaskReturns, Running, Keeps, Handled, InTask
  <2>3. \A u \in Start : at # "Exited" /\ Running(u)' => Owner(u)' \/ (Running(u) /\ Keeps(u))
    BY <2>4, <2>5
  <2> QED BY <1>11, <2>1, <2>3, OwnedKept, <1>2 DEF TaskReturns
<1>12. CASE TaskSeesReady(s)
  <2>1. Progress'
    BY <1>0, <1>12 DEF TaskSeesReady, Progress, Running
  <2>2. \A u \in Start : Queued(u) => Queued(u)'
    BY <1>4, <1>12 DEF TaskSeesReady
  <2>3. \A u \in Start : Running(u)' => Running(u) /\ Keeps(u)
    BY <1>0, <1>12, <2>2 DEF TaskSeesReady, Running, Keeps, Handled, InTask
  <2> QED BY <1>12, <2>1, <2>3, OwnedKept, <1>2 DEF TaskSeesReady
<1>13. CASE TaskTimesOut(s)
  <2>1. Progress'
    BY <1>0, <1>13 DEF TaskTimesOut, Progress, Running
  <2>2. \A u \in Start : Queued(u) => Queued(u)'
    BY <1>4, <1>13 DEF TaskTimesOut
  <2>3. \A u \in Start : Running(u)' => Running(u) /\ Keeps(u)
    BY <1>0, <1>13, <2>2 DEF TaskTimesOut, Running, Keeps, Handled, InTask
  <2> QED BY <1>13, <2>1, <2>3, OwnedKept, <1>2 DEF TaskTimesOut
<1>14. CASE ProcBinds(s)
  <2>1. Progress'
    BY <1>0, <1>14 DEF ProcBinds, Progress, Running
  <2>2. \A u \in Start : Queued(u) => Queued(u)'
    BY <1>4, <1>14 DEF ProcBinds
  <2>3. \A u \in Start : Running(u)' => Running(u) /\ Keeps(u)
    BY <1>0, <1>14, <2>2 DEF ProcBinds, Running, Keeps, Handled, InTask
  <2> QED BY <1>14, <2>1, <2>3, OwnedKept, <1>2 DEF ProcBinds
<1>15. CASE ProcCrashes(s)
  <2>1. Progress'
    BY <1>0, <1>15 DEF ProcCrashes, Progress, Running
  <2>2. \A u \in Start : Queued(u) => Queued(u)'
    BY <1>4, <1>15 DEF ProcCrashes
  <2>3. \A u \in Start : Running(u)' => Running(u) /\ Keeps(u)
    BY <1>0, <1>15, <2>2 DEF ProcCrashes, Running, Keeps, Handled, InTask
  <2> QED BY <1>15, <2>1, <2>3, OwnedKept, <1>2 DEF ProcCrashes
<1>16. CASE LogLine(s)
  <2>1. Progress'
    BY <1>0, <1>16 DEF LogLine, Progress, Running
  <2>2. \A u \in Start : Queued(u) => Queued(u)'
    BY <1>3, <1>16 DEF LogLine
  <2>3. \A u \in Start : Running(u)' => Running(u) /\ Keeps(u)
    BY <1>0, <1>16, <2>2 DEF LogLine, Running, Keeps, Handled, InTask
  <2> QED BY <1>16, <2>1, <2>3, OwnedKept, <1>2 DEF LogLine
<1>17. CASE MonitorLooks(s)
  <2>1. Progress'
    BY <1>0, <1>17 DEF MonitorLooks, Progress, Running
  <2>2. \A u \in Start : Queued(u) => Queued(u)'
    BY <1>4, <1>17 DEF MonitorLooks
  <2>3. \A u \in Start : Running(u)' => Running(u) /\ Keeps(u)
    BY <1>0, <1>17, <2>2 DEF MonitorLooks, Running, Keeps, Handled, InTask
  <2> QED BY <1>17, <2>1, <2>3, OwnedKept, <1>2 DEF MonitorLooks
<1>18. CASE MonitorFails(s)
  <2>1. Progress'
    BY <1>0, <1>18 DEF MonitorFails, Progress, Running, Publish
  <2>2. \A u \in Start : Queued(u) => Queued(u)'
    BY <1>4, <1>18 DEF MonitorFails
  <2>3. \A u \in Start : Running(u)' => Running(u) /\ Keeps(u)
    BY <1>0, <1>18, <2>2 DEF MonitorFails, Running, Keeps, Handled, InTask
  <2> QED BY <1>18, <2>1, <2>3, OwnedKept, <1>2 DEF MonitorFails
<1>19. CASE MonitorReports(s)
  <2>1. Progress'
    BY <1>0, <1>19 DEF MonitorReports, Progress, Running, Publish
  <2>2. \A u \in Start : Queued(u) => Queued(u)'
    BY <1>4, <1>19 DEF MonitorReports
  <2>4. ~Running(s)'
    BY <1>19 DEF MonitorReports, Progress, Running
  <2>5. \A u \in Start \ {s} : Running(u)' => Running(u) /\ Keeps(u)
    BY <1>0, <1>19, <2>2 DEF MonitorReports, Running, Keeps, Handled, InTask
  <2>3. \A u \in Start : Running(u)' => Owner(u)' \/ (Running(u) /\ Keeps(u))
    BY <2>4, <2>5
  <2> QED BY <1>19, <2>1, <2>3, OwnedKept, <1>2 DEF MonitorReports
<1>20. CASE ForwarderSees(s)
  <2>1. Progress'
    BY <1>0, <1>20 DEF ForwarderSees, Progress, Running
  <2>2. \A u \in Start : Queued(u) => Queued(u)'
    BY <1>4, <1>20 DEF ForwarderSees
  <2>3. \A u \in Start : Running(u)' => Running(u) /\ Keeps(u)
    BY <1>0, <1>20, <2>2 DEF ForwarderSees, Running, Keeps, Handled, InTask
  <2> QED BY <1>20, <2>1, <2>3, OwnedKept, <1>2 DEF ForwarderSees
<1>21. CASE ForwarderSends(s)
  <2>1. Progress'
    BY <1>0, <1>21 DEF ForwarderSends, Progress, Running
  <2>2. \A u \in Start : Queued(u) => Queued(u)'
    BY <1>3, <1>21 DEF ForwarderSends
  <2>3. \A u \in Start : Running(u)' => Running(u) /\ Keeps(u)
    BY <1>0, <1>21, <2>2 DEF ForwarderSends, Running, Keeps, Handled, InTask
  <2> QED BY <1>21, <2>1, <2>3, OwnedKept, <1>2 DEF ForwarderSends
<1>22. CASE ForwarderEnds(s)
  <2>1. Progress'
    BY <1>0, <1>22 DEF ForwarderEnds, Progress, Running
  <2>2. \A u \in Start : Queued(u) => Queued(u)'
    BY <1>4, <1>22 DEF ForwarderEnds
  <2>3. \A u \in Start : Running(u)' => Running(u) /\ Keeps(u)
    BY <1>0, <1>22, <2>2 DEF ForwarderEnds, Running, Keeps, Handled, InTask
  <2> QED BY <1>22, <2>1, <2>3, OwnedKept, <1>2 DEF ForwarderEnds
<1> QED BY <1>5, <1>6, <1>7, <1>8, <1>9, <1>10, <1>11, <1>12, <1>13, <1>14, <1>15, <1>16, <1>17, <1>18, <1>19, <1>20, <1>21, <1>22 DEF TaskStep, WatcherStep

\* A handle that leaves the slot is dropped with its child, or misses it.
LEMMA ReplaceOwned ==
    ASSUME TypeOK, Owned, at = "Draining", NEW n \in Start \union {NoStart}, Replace(n),
           UNCHANGED <<at, held, task, child>>,
           \A s \in Start : Queued(s) => Queued(s)' \/ n = s
    PROVE  Owned'
<1> SUFFICES ASSUME NEW s \in Start, Running(s)' PROVE Owner(s)'
  BY DEF Owned
<1>1. /\ slot' = n
      /\ DropEffect(IF slot \in Start \ {n} THEN {slot} ELSE {})
  BY ReplaceType
<1>2. Running(s) /\ Owner(s)
  BY <1>1 DEF DropEffect, Running, Owned
<1>3. CASE child[s] /\ slot = s /\ n # s
  BY <1>1, <1>3 DEF DropEffect, Running, Owner
<1>4. CASE child[s] /\ (Queued(s) \/ held = s \/ task[s] = "Returning" \/ (slot = s /\ n = s))
  BY <1>1, <1>4 DEF Owner, Handled
<1>5. CASE InTask(s) \/ missed[s]
  BY <1>1, <1>5 DEF DropEffect, Owner, InTask
<1> QED BY <1>2, <1>3, <1>4, <1>5 DEF Owner, Handled

\* A handle the loop takes to stop it leaves the slot, not the loop.
LEMMA StopOwned ==
    ASSUME TypeOK, Owned, LoopPlace, at = "Draining", NEW then \in NextStep, StopThen(then),
           UNCHANGED <<task, proc, child, missed>>,
           \A s \in Start : Queued(s) => Queued(s)',
           then.do = "launch" => task[then.start] = "None"
    PROVE  LoopPlace' /\ Owned'
<1>1. held = NoStart
  BY DEF LoopPlace
<1>2. LoopPlace'
  BY DEF LoopPlace, StopThen
<1>3. \A s \in Start : Running(s)' => Running(s) /\ Keeps(s)
  BY <1>1, SessionAssumption DEF StopThen, Running, Keeps, InTask, Handled
<1> QED BY <1>2, <1>3, OwnedKept

\* What the loop is about to launch has not been launched yet.
LEMMA ResolvedFresh ==
    ASSUME NEW then \in Resolved, then.do = "launch"
    PROVE  task[then.start] = "None"
<1>1. then # Send(Started(NoStart, FALSE))
  <2>1. Send(Started(NoStart, FALSE)).do = "send"
    BY DEF Send
  <2>2. "send" # "launch"
    OBVIOUS
  <2> QED BY <2>1, <2>2
<1>2. PICK s \in NewStart : then = Launch(s)
  BY <1>1 DEF Resolved
<1>3. then.start = s
  BY <1>2 DEF Launch
<1> QED BY <1>3 DEF NewStart

\* Every step of the loop leaves ownership, or passes it on.
LEMMA LoopInv == ASSUME Inv, LoopStep PROVE Progress' /\ LoopPlace' /\ Owned'
<1> USE DEF Inv, serverVars
<1>0. /\ task \in [Start -> {"None", "Probing", "Checking", "Spawning", "Waiting", "Verifying",
                           "Verified", "Cleaning", "Failing", "Returning", "Done"}]
      /\ proc \in [Start -> {"None", "Booting", "Up", "Gone"}]
      /\ child \in [Start -> BOOLEAN]
      /\ monitor \in [Start -> {"Off", "On", "Reporting"}]
      /\ held \in Start \union {NoStart} /\ slot \in Start \union {NoStart}
  BY DEF TypeOK
<1>1. ASSUME UNCHANGED <<task, proc, monitor>> PROVE Progress'
  BY <1>1 DEF Progress, Running
<1>2. ASSUME UNCHANGED <<at, after, held, task>> PROVE LoopPlace'
  BY <1>2 DEF LoopPlace
<1>3. ASSUME at' # "Exited" => at # "Exited", UNCHANGED <<held, slot, task, proc, child, missed>>,
             \A u \in Start : Queued(u) => Queued(u)',
             at # "Reaping"
      PROVE  Owned'
  <2>1. \A u \in Start : Running(u)' => Running(u) /\ Keeps(u)
    BY <1>3 DEF Running, Keeps, InTask, Handled
  <2> QED BY <1>3, <2>1, OwnedKept
<1>4. ASSUME NEW e, Receive(e), \A u \in Start : e # Started(u, TRUE)
      PROVE  \A u \in Start : Queued(u) => Queued(u)'
  BY <1>4, ReceiveKeeps
<1>5. \A e : Receive(e) => at = "Draining"
  BY DEF Receive
<1>6. ASSUME NEW k \in Key, Receive(KeyEvent(k))
      PROVE  at = "Draining" /\ \A u \in Start : Queued(u) => Queued(u)'
  BY <1>4, <1>5, <1>6, StartedDistinct
<1>7. Nothing.do # "launch"
  BY DEF Nothing
<1>8. CASE Tick
  <2>1. \A u \in Start : Queued(u) => Queued(u)'
    BY <1>8, EventTypes, PushKeeps, SameQueue DEF Tick
  <2>2. LoopPlace'
    BY <1>8 DEF Tick, LoopPlace
  <2> QED BY <1>1, <1>3, <1>8, <2>1, <2>2 DEF Tick
<1>9. CASE Drained
  <2>1. \A u \in Start : Queued(u) => Queued(u)'
    BY <1>9, SameQueue DEF Drained
  <2>2. LoopPlace'
    BY <1>9 DEF Drained, LoopPlace
  <2> QED BY <1>1, <1>3, <1>9, <2>1, <2>2 DEF Drained
<1>10. CASE HandleNote
  BY <1>1, <1>2, <1>3, <1>4, <1>5, <1>10, StartedDistinct DEF HandleNote, loopVars
<1>11. ASSUME NEW n \in Start \union {NoStart}, Replace(n), UNCHANGED <<task, monitor>>
       PROVE  Progress'
  <2>1. \A u \in Start : proc'[u] = proc[u] \/ proc'[u] = "Gone"
    BY <1>11, ReplaceType DEF DropEffect
  <2> QED BY <1>11, <2>1 DEF Progress, Running
<1>12. ASSUME NEW x \in Status, HandleStatus(x) PROVE Progress' /\ LoopPlace' /\ Owned'
  <2>1. at = "Draining" /\ \A u \in Start : Queued(u) => Queued(u)'
    BY <1>4, <1>5, <1>12, StartedDistinct DEF HandleStatus
  <2>2. LoopPlace'
    BY <1>2, <1>12 DEF HandleStatus
  <2>3. CASE x = "Stopped"
    BY <1>11, <1>12, <2>1, <2>2, <2>3, ReplaceOwned DEF HandleStatus
  <2>4. CASE x # "Stopped"
    BY <1>1, <1>3, <1>12, <2>1, <2>2, <2>4 DEF HandleStatus
  <2> QED BY <2>3, <2>4
<1>13. ASSUME NEW s \in Start \union {NoStart}, NEW ok \in BOOLEAN, HandleStarted(s, ok)
       PROVE  Progress' /\ LoopPlace' /\ Owned'
  <2> DEFINE n == IF ok THEN s ELSE NoStart
  <2>1. n \in Start \union {NoStart} /\ Replace(n) /\ Receive(Started(s, ok))
    BY <1>13 DEF HandleStarted
  <2>2. \A u \in Start : Queued(u) => Queued(u)' \/ n = u
    BY <2>1, ReceiveKeeps, StartedDistinct
  <2>3. at = "Draining" /\ UNCHANGED <<at, after, held, task, child, monitor>>
    BY <1>5, <1>13, <2>1 DEF HandleStarted
  <2> HIDE DEF n
  <2>4. Owned'
    BY <2>1, <2>2, <2>3, ReplaceOwned
  <2> QED BY <1>2, <1>11, <2>1, <2>3, <2>4
<1>14. CASE KeyStart
  <2>1. at = "Draining" /\ \A u \in Start : Queued(u) => Queued(u)'
    BY <1>6, <1>14 DEF KeyStart, Key
  <2>2. after'.do = "launch" => task[after'.start] = "None"
    BY <1>14, ResolvedFresh DEF KeyStart
  <2>3. LoopPlace'
    BY <1>14, <2>1, <2>2 DEF KeyStart, LoopPlace
  <2> QED BY <1>1, <1>3, <1>14, <2>1, <2>3 DEF KeyStart
<1>15. CASE KeyStop
  <2> DEFINE then == Send(StatusEvent("Stopped"))
  <2>1. at = "Draining" /\ \A u \in Start : Queued(u) => Queued(u)'
    BY <1>6, <1>15 DEF KeyStop, Key
  <2>2. then \in NextStep /\ then.do # "launch"
    BY EventTypes, StepTypes DEF Status, Send
  <2>3. StopThen(then) /\ UNCHANGED <<task, proc, child, missed, monitor>>
    BY <1>15 DEF KeyStop
  <2> HIDE DEF then
  <2> QED BY <1>1, <2>1, <2>2, <2>3, StopOwned
<1>16. CASE KeySwap
  BY <1>1, <1>2, <1>3, <1>6, <1>16 DEF KeySwap, Key
<1>17. CASE KeyConfirm
  <2>1. at = "Draining" /\ \A u \in Start : Queued(u) => Queued(u)'
    BY <1>6, <1>17 DEF KeyConfirm, Key
  <2>2. PICK then \in Resolved :
           IF then.do = "launch" THEN StopThen(then)
           ELSE at' = "Doing" /\ after' = then /\ UNCHANGED <<held, slot>>
    BY <1>17 DEF KeyConfirm
  <2>3. then \in NextStep /\ (then.do = "launch" => task[then.start] = "None")
    BY StepTypes, ResolvedFresh
  <2>4. UNCHANGED <<task, proc, child, missed, monitor>>
    BY <1>17 DEF KeyConfirm
  <2>5. CASE then.do = "launch"
    BY <1>1, <2>1, <2>2, <2>3, <2>4, <2>5, StopOwned
  <2>6. CASE then.do # "launch"
    <3>1. LoopPlace'
      BY <2>1, <2>2, <2>6 DEF LoopPlace
    <3> QED BY <1>1, <1>3, <2>1, <2>2, <2>4, <2>6, <3>1
  <2> QED BY <2>5, <2>6
<1>18. CASE KeyCancel
  BY <1>1, <1>2, <1>3, <1>6, <1>18 DEF KeyCancel, Key
<1>19. CASE KeyQuit
  <2> DEFINE then == [do |-> "quit"]
  <2>1. at = "Draining" /\ \A u \in Start : Queued(u) => Queued(u)'
    BY <1>6, <1>19 DEF KeyQuit, Key
  <2>2. then \in NextStep /\ then.do # "launch"
    BY StepTypes
  <2>3. StopThen(then) /\ UNCHANGED <<task, proc, child, missed, monitor>>
    BY <1>19 DEF KeyQuit
  <2> HIDE DEF then
  <2> QED BY <1>1, <2>1, <2>2, <2>3, StopOwned
<1>20. CASE KeyIgnored
  BY <1>1, <1>2, <1>3, <1>6, <1>20 DEF KeyIgnored, loopVars
<1>21. CASE StopTakes
  <2>1. held \in Start
    BY <1>0, <1>21 DEF StopTakes, LoopPlace
  <2>2. \A u \in Start : Queued(u) => Queued(u)'
    BY <1>21, SameQueue DEF StopTakes
  <2>3. Owner(held)'
    BY <1>21 DEF StopTakes, Owner
  <2>4. \A u \in Start \ {held} : Running(u)' => Running(u) /\ Keeps(u)
    BY <1>0, <1>21, <2>1, <2>2 DEF StopTakes, Running, Keeps, InTask, Handled
  <2>5. held' = held /\ LoopPlace'
    BY <1>21 DEF StopTakes, LoopPlace
  <2>6. \A u \in Start : Running(u)' => Owner(u)' \/ (Running(u) /\ Keeps(u))
    BY <2>3, <2>4, <2>5 DEF Owner
  <2> QED BY <1>1, <1>21, <2>5, <2>6, OwnedKept DEF StopTakes
<1>22. CASE StopReaps
  <2>1. held \in Start
    BY <1>0, <1>22 DEF StopReaps, LoopPlace
  <2>2. \A u \in Start : Queued(u) => Queued(u)'
    BY <1>22, SameQueue DEF StopReaps
  <2>4. \A u \in Start : Running(u)' => Running(u) /\ Keeps(u)
    BY <1>0, <1>22, <2>1, <2>2 DEF StopReaps, Running, Keeps, InTask, Handled
  <2>5. Progress'
    BY <1>0, <1>22, <2>1 DEF StopReaps, Progress, Running, Publish
  <2>6. LoopPlace'
    BY <1>22 DEF StopReaps, LoopPlace
  <2> QED BY <1>22, <2>4, <2>5, <2>6, OwnedKept DEF StopReaps
<1>23. CASE LoopSends
  <2>1. \A u \in Start : Queued(u) => Queued(u)'
    BY <1>23, AfterTypes, PushKeeps DEF LoopSends, TypeOK
  <2>2. LoopPlace'
    BY <1>7, <1>23 DEF LoopSends, LoopPlace
  <2> QED BY <1>1, <1>3, <1>23, <2>1, <2>2 DEF LoopSends
<1>24. CASE LoopLaunches
  <2>1. after.start \in Start /\ task[after.start] = "None"
    BY <1>24, AfterTypes DEF LoopLaunches, LoopPlace, TypeOK
  <2>2. ~Running(after.start) /\ monitor[after.start] = "Off"
    BY <2>1 DEF Progress
  <2>3. \A u \in Start : Queued(u) => Queued(u)'
    BY <1>24, SameQueue DEF LoopLaunches
  <2>4. Progress'
    BY <1>0, <1>24, <2>1, <2>2 DEF LoopLaunches, Progress, Running
  <2>5. LoopPlace'
    BY <1>7, <1>24 DEF LoopLaunches, LoopPlace
  <2>6. \A u \in Start : Running(u)' => Running(u) /\ Keeps(u)
    BY <1>0, <1>24, <2>1, <2>2, <2>3 DEF LoopLaunches, Running, Keeps, InTask, Handled
  <2> QED BY <1>24, <2>4, <2>5, <2>6, OwnedKept DEF LoopLaunches
<1>25. CASE LoopQuits
  <2>1. \A u \in Start : Queued(u) => Queued(u)'
    BY <1>25, SameQueue DEF LoopQuits
  <2>2. LoopPlace'
    BY <1>7, <1>25 DEF LoopQuits, LoopPlace
  <2> QED BY <1>1, <1>3, <1>25, <2>1, <2>2 DEF LoopQuits
<1>26. CASE Leave
  <2>1. Progress'
    BY <1>26 DEF Leave, Progress
  <2>2. LoopPlace'
    BY <1>7, <1>26 DEF Leave, LoopPlace
  <2> QED BY <1>26, <2>1, <2>2 DEF Leave, Owned
<1> QED BY <1>8, <1>9, <1>10, <1>12, <1>13, <1>14, <1>15, <1>16, <1>17, <1>18, <1>19, <1>20,
           <1>21, <1>22, <1>23, <1>24, <1>25, <1>26 DEF LoopStep, HandleEvent

LEMMA StutterInv == ASSUME Inv, UNCHANGED vars PROVE Progress' /\ LoopPlace' /\ Owned'
<1>1. \A s \in Start : Queued(s) => Queued(s)'
  BY SameQueue DEF vars
<1>2. \A s \in Start : Running(s)' => Running(s) /\ Keeps(s)
  BY <1>1 DEF vars, loopVars, serverVars, Running, Keeps, InTask, Handled
<1>3. Progress' /\ LoopPlace'
  BY DEF Inv, vars, loopVars, serverVars, Progress, LoopPlace, Running
<1> QED BY <1>2, <1>3, OwnedKept DEF Inv, vars, loopVars

\* The inductive invariant: a running process has an owner, a monitor that
\* reports has lost its process, and the loop launches only what never started.
THEOREM InvCorrect == Spec => []Inv
<1>1. Inv /\ [Next]_vars => Inv'
  <2> SUFFICES ASSUME Inv, [Next]_vars PROVE Inv'
    OBVIOUS
  <2>1. TypeOK'
    BY LoopType, StartType, StutterType DEF Inv, Next
  <2>2. Progress' /\ LoopPlace' /\ Owned'
    BY LoopInv, StartInv, StutterInv DEF Next
  <2> QED BY <2>1, <2>2 DEF Inv
<1> QED BY <1>1, InitInv, PTL DEF Spec

\* While the program runs, every server process has an owner that can still
\* stop it, however starts, stops, crashes and events overtake each other.
THEOREM EveryChildOwned == Spec => []ChildOwned
<1>1. Inv => ChildOwned
  <2> SUFFICES ASSUME Inv, at # "Exited", NEW s \in Start, Running(s)
               PROVE  InTask(s) \/ Handled(s) \/ missed[s]
    BY DEF ChildOwned
  <2>1. Owner(s)
    BY DEF Inv, Owned
  <2> QED BY <2>1 DEF Owner, Handled
<1> QED BY <1>1, InvCorrect, PTL

-----------------------------------------------------------------------------
(* A start has one handle.                                                 *)

Once(s) == \A i, j \in 1..Len(queue) :
              queue[i] = Started(s, TRUE) /\ queue[j] = Started(s, TRUE) => i = j

\* The handle of s is in one place only: with its task, in the channel, in the
\* slot or with the loop that stops it, where it ends.
Single(s) ==
    /\ Once(s)
    /\ Queued(s) => /\ task[s] = "Done" /\ slot # s /\ held # s
                    /\ watch[s] # "Stopped"
    /\ slot = s \/ held = s => task[s] = "Done"
    /\ task[s] # "Done" => watch[s] # "Stopped"

\* So a panel that says Stopped has no handle behind it.
StoppedIsEmpty == panel = "Stopped" => slot = NoStart

\* What the loop itself sends brings no handle.
SendsNone == after.do = "send" => \A s \in Start : after.event # Started(s, TRUE)

HandleInv == (\A s \in Start : Single(s)) /\ StoppedIsEmpty /\ SendsNone

LEMMA NothingSent == ASSUME SendsNone, after' \in {after, Nothing} PROVE SendsNone'
<1>1. CASE after' = after
  BY <1>1 DEF SendsNone
<1>2. CASE after' = Nothing
  <2>1. Nothing.do # "send"
    BY DEF Nothing
  <2>2. after'.do # "send"
    BY <1>2, <2>1
  <2> QED BY <2>2 DEF SendsNone
<1> QED BY <1>1, <1>2

LEMMA LaunchSendsNone ==
    /\ \A s \in Start : Launch(s).do # "send"
    /\ \A s \in Start : StatusEvent("Stopped") # Started(s, TRUE)
    /\ \A s \in Start : Started(NoStart, FALSE) # Started(s, TRUE)
BY DEF Launch, StatusEvent, Started

LEMMA ResolvedSendsNone ==
    ASSUME NEW then \in Resolved, after' = then
    PROVE  SendsNone'
<1>1. CASE then = Send(Started(NoStart, FALSE))
  BY <1>1, LaunchSendsNone DEF Send, SendsNone
<1>2. CASE \E s \in NewStart : then = Launch(s)
  BY <1>2, LaunchSendsNone DEF SendsNone, NewStart
<1> QED BY <1>1, <1>2 DEF Resolved

LEMMA HandleInit == Init => HandleInv
<1> SUFFICES ASSUME Init PROVE HandleInv
  OBVIOUS
<1>1. StoppedIsEmpty
  BY DEF Init, StoppedIsEmpty
<1>3. SendsNone
  BY DEF Init, SendsNone, Nothing
<1>2. ASSUME NEW s \in Start PROVE Single(s)
  <2>1. Len(queue) = 0
    BY EmptySeq DEF Init
  <2>2. Once(s) /\ ~Queued(s)
    BY <2>1 DEF Once, Queued
  <2> QED BY <2>2, SessionAssumption DEF Init, Single
<1> QED BY <1>1, <1>2, <1>3 DEF HandleInv

LEMMA PushOnce ==
    ASSUME TypeOK, NEW e \in Event, Push(e), NEW s \in Start, Once(s),
           e = Started(s, TRUE) => ~Queued(s)
    PROVE  Once(s)' /\ (Queued(s)' => Queued(s) \/ e = Started(s, TRUE))
<1>1. queue \in Seq(Event) /\ queue' = Append(queue, e)
  BY DEF TypeOK, Push
<1>2. /\ Len(queue') = Len(queue) + 1
      /\ \A i \in 1..Len(queue) : queue'[i] = queue[i]
      /\ queue'[Len(queue) + 1] = e
  BY <1>1, AppendProperties
<1>3. Len(queue) \in Nat
  BY <1>1, LenProperties
<1>4. \A i \in 1..Len(queue') : i \in 1..Len(queue) \/ i = Len(queue) + 1
  BY <1>2, <1>3
<1>5. Queued(s)' => Queued(s) \/ e = Started(s, TRUE)
  BY <1>2, <1>4 DEF Queued
<1>6. Once(s)'
  <2> SUFFICES ASSUME NEW i \in 1..Len(queue'), NEW j \in 1..Len(queue'),
                      queue'[i] = Started(s, TRUE), queue'[j] = Started(s, TRUE)
               PROVE  i = j
    BY DEF Once
  <2>1. CASE i \in 1..Len(queue) /\ j \in 1..Len(queue)
    BY <1>2, <2>1 DEF Once
  <2>2. CASE ~(i \in 1..Len(queue) /\ j \in 1..Len(queue)) /\ e = Started(s, TRUE)
    <3>1. \A k \in 1..Len(queue) : queue[k] # Started(s, TRUE)
      BY <2>2 DEF Queued
    <3> QED BY <1>2, <1>4, <2>2, <3>1
  <2>3. CASE e # Started(s, TRUE)
    BY <1>2, <1>4, <2>1, <2>3
  <2> QED BY <2>1, <2>2, <2>3
<1> QED BY <1>5, <1>6

LEMMA ReceiveOnce ==
    ASSUME TypeOK, NEW e, Receive(e), NEW s \in Start, Once(s)
    PROVE  Once(s)' /\ (Queued(s)' => Queued(s) /\ e # Started(s, TRUE))
<1>1. queue \in Seq(Event) /\ queue # <<>> /\ e = queue[1] /\ queue' = Tail(queue)
  BY DEF TypeOK, Receive
<1>2. /\ Len(queue') = Len(queue) - 1
      /\ \A i \in 1..Len(queue') : queue'[i] = queue[i + 1]
  BY <1>1, HeadTailProperties
<1>3. Len(queue) \in Nat /\ Len(queue) # 0
  BY <1>1, LenProperties, EmptySeq
<1>4. \A i \in 1..Len(queue') : i + 1 \in 1..Len(queue) /\ i + 1 # 1 /\ i \in Nat
  BY <1>2, <1>3
<1>5. Once(s)'
  <2> SUFFICES ASSUME NEW i \in 1..Len(queue'), NEW j \in 1..Len(queue'),
                      queue'[i] = Started(s, TRUE), queue'[j] = Started(s, TRUE)
               PROVE  i = j
    BY DEF Once
  <2>1. i + 1 = j + 1
    BY <1>2, <1>4 DEF Once
  <2> QED BY <1>4, <2>1
<1>6. ASSUME Queued(s)' PROVE Queued(s) /\ e # Started(s, TRUE)
  <2>1. PICK i \in 1..Len(queue') : queue'[i] = Started(s, TRUE)
    BY <1>6 DEF Queued
  <2>2. queue[i + 1] = Started(s, TRUE) /\ i + 1 \in 1..Len(queue) /\ i + 1 # 1
    BY <1>2, <1>4, <2>1
  <2>3. 1 \in 1..Len(queue)
    BY <1>3
  <2>4. Queued(s)
    BY <2>2 DEF Queued
  <2>5. queue[1] # Started(s, TRUE)
    BY <2>2, <2>3 DEF Once
  <2> QED BY <1>1, <2>4, <2>5
<1> QED BY <1>5, <1>6

LEMMA QueueOnce ==
    ASSUME queue' = queue, NEW s \in Start
    PROVE  (Once(s) => Once(s)') /\ (Queued(s)' => Queued(s))
BY DEF Once, Queued

\* A step that moves the handle of s nowhere new.
LEMMA SingleKept ==
    ASSUME NEW s \in Start, Single(s), Once(s)', Queued(s)' => Queued(s),
           slot' = s => slot = s,
           held' = s => held = s \/ slot = s,
           task[s] = "Done" => task'[s] = "Done",
           watch'[s] = watch[s] \/ watch'[s] # "Stopped",
           Queued(s) => slot # s
    PROVE  Single(s)'
BY DEF Single

\* Every step of a start leaves its handle alone or is the one that sends it.
LEMMA StartHandle ==
    ASSUME Inv, HandleInv, NEW s \in Start,
           \/ TaskStep(s) \/ TaskSeesReady(s) \/ TaskTimesOut(s)
           \/ ProcBinds(s) \/ ProcCrashes(s) \/ LogLine(s) \/ WatcherStep(s)
    PROVE  HandleInv'
<1> USE DEF loopVars, Goto
<1>0. /\ task \in [Start -> {"None", "Probing", "Checking", "Spawning", "Waiting", "Verifying",
                           "Verified", "Cleaning", "Failing", "Returning", "Done"}]
      /\ watch \in [Start -> Status] /\ TypeOK
  BY DEF Inv, TypeOK
<1>1. UNCHANGED loopVars
  BY DEF TaskStep, WatcherStep, TaskProbes, TaskChecksPort, TaskSpawns, TaskVerifies, TaskAdopts,
         TaskCleans, TaskReturns, TaskSeesReady, TaskTimesOut, ProcBinds, ProcCrashes, LogLine,
         MonitorLooks, MonitorFails, MonitorReports, ForwarderSees, ForwarderSends, ForwarderEnds
<1>2. StoppedIsEmpty' /\ SendsNone'
  BY <1>1, NothingSent DEF StoppedIsEmpty, HandleInv
<1>3. ASSUME NEW u \in Start, Once(u)', Queued(u)' => Queued(u),
             task[u] = "Done" => task'[u] = "Done",
             watch'[u] = watch[u] \/ watch'[u] # "Stopped"
      PROVE  Single(u)'
  <2>1. Single(u) /\ (Queued(u) => slot # u)
    BY DEF HandleInv, Single
  <2>2. slot' = slot /\ held' = held
    BY <1>1
  <2> QED BY <1>3, <2>1, <2>2, SingleKept
<1>4. \A u \in Start : Once(u)
  BY DEF HandleInv, Single
<1>5. ASSUME queue' = queue,
             \A u \in Start : task[u] = "Done" => task'[u] = "Done",
             \A u \in Start : watch'[u] = watch[u] \/ watch'[u] # "Stopped"
      PROVE  HandleInv'
  BY <1>2, <1>3, <1>4, <1>5, QueueOnce DEF HandleInv
<1>6. ASSUME NEW e \in Event, Push(e), \A u \in Start : e # Started(u, TRUE),
             \A u \in Start : task[u] = "Done" => task'[u] = "Done",
             watch' = watch
      PROVE  HandleInv'
  BY <1>0, <1>2, <1>3, <1>4, <1>6, PushOnce DEF HandleInv
<1>7. CASE TaskProbes(s)
  BY <1>0, <1>6, <1>7, EventTypes, StartedDistinct DEF TaskProbes
<1>8. CASE TaskChecksPort(s)
  BY <1>0, <1>5, <1>8 DEF TaskChecksPort
<1>9. CASE TaskSpawns(s)
  BY <1>0, <1>5, <1>9 DEF TaskSpawns
<1>10. CASE TaskVerifies(s)
  BY <1>0, <1>5, <1>10 DEF TaskVerifies
<1>11. CASE TaskAdopts(s)
  BY <1>0, <1>5, <1>11 DEF TaskAdopts, Publish
<1>12. CASE TaskCleans(s)
  BY <1>0, <1>5, <1>12 DEF TaskCleans
<1>13. CASE TaskReturns(s)
  <2>0. Started(s, TRUE) \in Event /\ Started(s, FALSE) \in Event
    BY EventTypes
  <2>1. CASE Push(Started(s, FALSE)) /\ Goto(s, "Failing", "Done")
    <3>1. \A u \in Start : Started(s, FALSE) # Started(u, TRUE)
      BY StartedDistinct
    <3>2. watch' = watch
      BY <1>13 DEF TaskReturns
    <3> QED BY <1>0, <1>6, <2>0, <2>1, <3>1, <3>2
  <2>2. CASE Push(Started(s, TRUE)) /\ Goto(s, "Returning", "Done")
    <3>1. watch' = watch /\ slot' = slot /\ held' = held
      BY <1>1, <1>13 DEF TaskReturns
    <3>2. Single(s) /\ task[s] = "Returning"
      BY <2>2 DEF HandleInv
    <3>3. ~Queued(s) /\ slot # s /\ held # s /\ watch[s] # "Stopped"
      BY <3>2 DEF Single
    <3>4. task'[s] = "Done" /\ \A u \in Start \ {s} : task'[u] = task[u]
      BY <1>0, <2>2
    <3>5. \A u \in Start : Once(u)' /\ (Queued(u)' => Queued(u) \/ Started(s, TRUE) = Started(u, TRUE))
      BY <1>0, <1>4, <2>0, <2>2, <3>3, PushOnce, StartedDistinct
    <3>6. Single(s)'
      BY <3>1, <3>3, <3>4, <3>5 DEF Single
    <3>7. \A u \in Start \ {s} : Queued(u)' => Queued(u)
      BY <3>5, StartedDistinct
    <3> QED BY <1>2, <1>3, <3>1, <3>4, <3>5, <3>6, <3>7 DEF HandleInv
  <2> QED BY <1>13, <2>1, <2>2 DEF TaskReturns
<1>14. CASE TaskSeesReady(s)
  BY <1>0, <1>5, <1>14 DEF TaskSeesReady
<1>15. CASE TaskTimesOut(s)
  BY <1>0, <1>5, <1>15 DEF TaskTimesOut
<1>16. CASE ProcBinds(s)
  BY <1>5, <1>16 DEF ProcBinds
<1>17. CASE ProcCrashes(s)
  BY <1>5, <1>17 DEF ProcCrashes
<1>18. CASE LogLine(s)
  BY <1>0, <1>6, <1>18, EventTypes, StartedDistinct DEF LogLine
<1>19. CASE MonitorLooks(s)
  BY <1>5, <1>19 DEF MonitorLooks
<1>20. CASE MonitorFails(s)
  BY <1>0, <1>5, <1>20 DEF MonitorFails, Publish
<1>21. CASE MonitorReports(s)
  BY <1>0, <1>5, <1>21 DEF MonitorReports, Publish
<1>22. CASE ForwarderSees(s)
  BY <1>5, <1>22 DEF ForwarderSees
<1>23. CASE ForwarderSends(s)
  BY <1>0, <1>6, <1>23, EventTypes, StartedDistinct DEF ForwarderSends
<1>24. CASE ForwarderEnds(s)
  BY <1>5, <1>24 DEF ForwarderEnds
<1> QED BY <1>7, <1>8, <1>9, <1>10, <1>11, <1>12, <1>13, <1>14, <1>15, <1>16, <1>17, <1>18, <1>19,
           <1>20, <1>21, <1>22, <1>23, <1>24 DEF TaskStep, WatcherStep

\* Every step of the loop moves handles, and copies none.
LEMMA LoopHandle == ASSUME Inv, HandleInv, LoopStep PROVE HandleInv'
<1>0. /\ task \in [Start -> {"None", "Probing", "Checking", "Spawning", "Waiting", "Verifying",
                           "Verified", "Cleaning", "Failing", "Returning", "Done"}]
      /\ watch \in [Start -> Status] /\ TypeOK /\ LoopPlace
      /\ held \in Start \union {NoStart} /\ slot \in Start \union {NoStart}
  BY DEF Inv, TypeOK
<1>1. \A u \in Start : Single(u) /\ Once(u) /\ (Queued(u) => slot # u)
  BY DEF HandleInv, Single
<1>2. ASSUME \A u \in Start : Once(u)' /\ (Queued(u)' => Queued(u)),
             slot' \in {slot, NoStart}, held' \in {held, slot, NoStart},
             UNCHANGED <<task, watch>>, panel' = "Stopped" => panel = "Stopped" \/ slot' = NoStart,
             SendsNone'
      PROVE  HandleInv'
  <2>1. StoppedIsEmpty'
    BY <1>2 DEF HandleInv, StoppedIsEmpty
  <2>2. ASSUME NEW u \in Start PROVE Single(u)'
    BY <1>1, <1>2, SingleKept, SessionAssumption
  <2> QED BY <1>2, <2>1, <2>2 DEF HandleInv
<1>21. ASSUME after' \in {after, Nothing} PROVE SendsNone'
  BY <1>21, NothingSent DEF HandleInv
<1>3. \A u \in Start : queue' = queue => Once(u)' /\ (Queued(u)' => Queued(u))
  BY <1>1, QueueOnce
<1>4. \A e : Receive(e) => at = "Draining" /\ \A u \in Start : Once(u)' /\ (Queued(u)' => Queued(u))
  BY <1>0, <1>1, ReceiveOnce DEF Receive
<1>5. ASSUME NEW e \in Event, Push(e), \A u \in Start : e # Started(u, TRUE)
      PROVE  \A u \in Start : Once(u)' /\ (Queued(u)' => Queued(u))
  BY <1>0, <1>1, <1>5, PushOnce
<1>6. CASE Tick
  <2>1. \A u \in Start : Once(u)' /\ (Queued(u)' => Queued(u))
    BY <1>3, <1>5, <1>6, EventTypes, StartedDistinct DEF Tick
  <2> QED BY <1>2, <1>6, <1>21, <2>1 DEF Tick, serverVars
<1>7. CASE Drained
  BY <1>2, <1>3, <1>21, <1>7 DEF Drained, serverVars
<1>8. CASE HandleNote
  BY <1>2, <1>4, <1>21, <1>8 DEF HandleNote, loopVars, serverVars
<1>9. ASSUME NEW x \in Status, HandleStatus(x) PROVE HandleInv'
  BY <1>2, <1>4, <1>21, <1>9 DEF HandleStatus, Replace
<1>10. ASSUME NEW s \in Start \union {NoStart}, NEW ok \in BOOLEAN, HandleStarted(s, ok) PROVE HandleInv'
  <2>1. CASE ~ok
    BY <1>2, <1>4, <1>21, <1>10, <2>1 DEF HandleStarted, Replace
  <2>2. CASE ok
    <3>0. Receive(Started(s, ok))
      BY <1>10 DEF HandleStarted
    <3>1. Receive(Started(s, TRUE)) /\ Started(s, TRUE) \in Event
      BY <1>0, <2>2, <3>0, ReceiveType
    <3>2. s \in Start
      BY <3>1, StartedReal
    <3>3. Queued(s)
      <4>1. \A e : Receive(e) => queue[1] = e /\ 1 \in 1..Len(queue)
        <5>1. queue \in Seq(Event)
          BY <1>0 DEF TypeOK
        <5> QED BY <5>1, LenProperties, EmptySeq DEF Receive
      <4>2. queue[1] = Started(s, TRUE) /\ 1 \in 1..Len(queue)
        BY <3>1, <4>1
      <4> QED BY <4>2 DEF Queued
    <3>4. /\ slot' = s /\ held' = held /\ panel' = watch[s]
          /\ UNCHANGED <<task, watch>>
      BY <1>10, <2>2 DEF HandleStarted, Replace
    <3>5. \A u \in Start : Once(u)' /\ (Queued(u)' => Queued(u) /\ u # s)
      BY <1>0, <1>1, <3>1, ReceiveOnce
    <3>6. task[s] = "Done" /\ held # s /\ watch[s] # "Stopped"
      BY <1>1, <3>2, <3>3 DEF Single
    <3>7. Single(s)'
      BY <1>1, <3>2, <3>4, <3>5, <3>6 DEF Single
    <3>8. ASSUME NEW u \in Start \ {s} PROVE Single(u)'
      BY <1>1, <3>4, <3>5, SingleKept
    <3>9. StoppedIsEmpty'
      BY <3>4, <3>6 DEF StoppedIsEmpty
    <3>10. SendsNone'
      BY <1>10, <1>21 DEF HandleStarted
    <3> QED BY <3>7, <3>8, <3>9, <3>10 DEF HandleInv
  <2> QED BY <2>1, <2>2
<1>11. CASE KeyStart
  <2>1. SendsNone'
    BY <1>11, ResolvedSendsNone DEF KeyStart
  <2> QED BY <1>2, <1>4, <1>11, <2>1 DEF KeyStart, serverVars
<1>12. CASE KeyStop
  <2>1. after' = Send(StatusEvent("Stopped"))
    BY <1>12 DEF KeyStop, StopThen
  <2>2. SendsNone'
    BY <2>1, LaunchSendsNone DEF Send, SendsNone
  <2> QED BY <1>2, <1>4, <1>12, <2>2 DEF KeyStop, StopThen, serverVars
<1>13. CASE KeySwap
  BY <1>2, <1>4, <1>21, <1>13 DEF KeySwap, serverVars
<1>14. CASE KeyConfirm
  <2>1. SendsNone'
    BY <1>14, ResolvedSendsNone DEF KeyConfirm, StopThen
  <2> QED BY <1>2, <1>4, <1>14, <2>1 DEF KeyConfirm, StopThen, serverVars
<1>15. CASE KeyCancel
  BY <1>2, <1>4, <1>21, <1>15 DEF KeyCancel, serverVars
<1>16. CASE KeyQuit
  <2>1. after' = [do |-> "quit"]
    BY <1>16 DEF KeyQuit, StopThen
  <2>2. SendsNone'
    BY <2>1 DEF SendsNone
  <2> QED BY <1>2, <1>4, <1>16, <2>2 DEF KeyQuit, StopThen, serverVars
<1>17. CASE KeyIgnored
  BY <1>2, <1>4, <1>21, <1>17 DEF KeyIgnored, loopVars, serverVars
<1>18. CASE StopTakes
  BY <1>2, <1>3, <1>21, <1>18 DEF StopTakes
<1>19. CASE StopReaps
  <2>1. held \in Start
    BY <1>0, <1>19 DEF StopReaps, LoopPlace
  <2>2. /\ held' = NoStart /\ slot' = slot /\ task' = task /\ panel' = panel
        /\ \A u \in Start \ {held} : watch'[u] = watch[u]
    BY <1>0, <1>19 DEF StopReaps, Publish
  <2>3. \A u \in Start : Once(u)' /\ (Queued(u)' => Queued(u))
    BY <1>3, <1>19 DEF StopReaps
  <2>4. ~Queued(held) /\ task[held] = "Done"
    BY <1>1, <2>1 DEF Single
  <2>5. Single(held)
    BY <1>1, <2>1
  <2>6. ASSUME NEW u \in Start \ {held} PROVE Single(u)'
    BY <1>1, <2>2, <2>3, SingleKept, SessionAssumption
  <2>7. ASSUME NEW u \in Start, u = held PROVE Single(u)'
    BY <2>2, <2>3, <2>4, <2>5, <2>7 DEF Single
  <2>8. StoppedIsEmpty'
    BY <2>2 DEF HandleInv, StoppedIsEmpty
  <2>9. SendsNone'
    BY <1>19, <1>21 DEF StopReaps
  <2> QED BY <2>6, <2>7, <2>8, <2>9 DEF HandleInv
<1>20. CASE LoopSends
  <2>1. after.event \in Event /\ \A u \in Start : after.event # Started(u, TRUE)
    <3>1. after \in NextStep /\ after.do = "send"
      BY <1>0, <1>20 DEF LoopSends, TypeOK
    <3> QED BY <3>1, AfterTypes DEF HandleInv, SendsNone
  <2>2. \A u \in Start : Once(u)' /\ (Queued(u)' => Queued(u))
    BY <1>5, <1>20, <2>1 DEF LoopSends
  <2> QED BY <1>2, <1>20, <1>21, <2>2 DEF LoopSends, serverVars
<1>22. CASE LoopLaunches
  <2>1. after.start \in Start /\ task[after.start] = "None"
    BY <1>0, <1>22, AfterTypes DEF LoopLaunches, LoopPlace, TypeOK
  <2>2. \A u \in Start : task[u] = "Done" => task'[u] = "Done"
    BY <1>0, <1>22, <2>1 DEF LoopLaunches
  <2>3. /\ slot' = slot /\ held' = held /\ watch' = watch /\ panel' = panel
        /\ \A u \in Start : Once(u)' /\ (Queued(u)' => Queued(u))
    BY <1>3, <1>22 DEF LoopLaunches
  <2>4. \A u \in Start : Single(u)'
    BY <1>1, <2>2, <2>3, SingleKept
  <2>5. StoppedIsEmpty' /\ SendsNone'
    BY <1>21, <1>22, <2>3 DEF LoopLaunches, HandleInv, StoppedIsEmpty
  <2> QED BY <2>4, <2>5 DEF HandleInv
<1>23. CASE LoopQuits
  BY <1>2, <1>3, <1>21, <1>23 DEF LoopQuits, serverVars
<1>24. CASE Leave
  <2>1. /\ slot' = NoStart /\ held' = held /\ watch' = watch
        /\ \A u \in Start : task'[u] = "Done"
    BY <1>24 DEF Leave
  <2>2. \A u \in Start : Once(u)' /\ ~Queued(u)'
    <3>1. queue' = <<>> /\ Len(queue') = 0
      BY <1>24, EmptySeq DEF Leave
    <3> QED BY <3>1 DEF Once, Queued
  <2>3. \A u \in Start : Single(u)'
    BY <2>1, <2>2, SessionAssumption DEF Single
  <2>4. StoppedIsEmpty' /\ SendsNone'
    BY <1>21, <1>24, <2>1 DEF Leave, StoppedIsEmpty
  <2> QED BY <2>3, <2>4 DEF HandleInv
<1> QED BY <1>6, <1>7, <1>8, <1>9, <1>10, <1>11, <1>12, <1>13, <1>14, <1>15, <1>16, <1>17, <1>18,
           <1>19, <1>20, <1>22, <1>23, <1>24 DEF LoopStep, HandleEvent

LEMMA HandleStutter == ASSUME HandleInv, UNCHANGED vars PROVE HandleInv'
<1>1. \A s \in Start : (Once(s) => Once(s)') /\ (Queued(s)' => Queued(s))
  BY QueueOnce DEF vars
<1>2. \A s \in Start : Single(s)'
  BY <1>1 DEF vars, loopVars, serverVars, HandleInv, Single
<1>3. StoppedIsEmpty' /\ SendsNone'
  BY DEF vars, loopVars, HandleInv, StoppedIsEmpty, SendsNone
<1> QED BY <1>2, <1>3 DEF HandleInv

\* The handle of a start is never in two places, and a stopped server's handle
\* never comes back: the panel that says Stopped holds none.
THEOREM HandleCorrect == Spec => []HandleInv
<1>1. Inv /\ HandleInv /\ [Next]_vars => HandleInv'
  BY LoopHandle, StartHandle, HandleStutter DEF Next
<1> QED BY <1>1, HandleInit, InvCorrect, PTL DEF Spec

\* Once everything has settled, no server runs behind a panel that says
\* Stopped, but for one whose Drop could not get the child lock: however
\* starts, swaps, stops and crashes overtake each other.
THEOREM StoppedServerStopped == Spec => []StoppedIsStopped
<1>1. Inv /\ HandleInv => StoppedIsStopped
  <2> SUFFICES ASSUME Inv, HandleInv, Settled, panel = "Stopped", NEW s \in Start, Running(s)
               PROVE  missed[s]
    BY DEF StoppedIsStopped
  <2>1. slot = NoStart /\ at = "Ticking" /\ held = NoStart
    BY DEF HandleInv, StoppedIsEmpty, Settled, Inv, LoopPlace
  <2>2. ~Queued(s)
    BY EmptySeq DEF Settled, Queued
  <2>3. task[s] \in {"None", "Done"}
    BY DEF Settled
  <2>4. ~Handled(s) /\ ~InTask(s)
    BY <2>1, <2>2, <2>3, SessionAssumption DEF Handled, InTask
  <2>5. Owner(s)
    BY <2>1 DEF Inv, Owned
  <2> QED BY <2>1, <2>4, <2>5 DEF Owner
<1> QED BY <1>1, InvCorrect, HandleCorrect, PTL

-----------------------------------------------------------------------------
(* The runtime profiles.                                                   *)

\* A start that has its process.
Spawned(k) == starts[k] /\ step[k] \in {"wait", "undo", "save", "writing"}

\* Whether k still trusts the port it saw free.
TrustsPort(k) == step[k] \in {"spawn", "wait"} \/ followup[k] = "wait"

\* Whether k is to signal the process it recognised.
Kills(k) == step[k] = "kill" \/ followup[k] = "kill"

\* What holds of a command whatever the others do: the order of its steps, and
\* that its child is the process it recorded in its copy.
CommandInv(k) ==
  /\ step[k] # "open"
  /\ followup[k] \in {"idle", "wait", "kill", "started", "stopped", "refused"}
  /\ followup[k] # "idle" <=> step[k] \in {"save", "writing"}
  /\ step[k] \in {"port", "spawn", "wait", "undo"} \/ followup[k] \in {"wait", "started"} =>
       starts[k]
  /\ Kills(k) \/ followup[k] = "stopped" => ~starts[k]
  /\ \A p \in Pid : process[p].by = k =>
       Spawned(k) /\ p = MyPid(k) /\ process[p].profile = profile[k]
  /\ Spawned(k) => MyPid(k) \in Pid /\ process[MyPid(k)].by = k
  /\ TrustsPort(k) /\ k \notin overtaken => listener = NoPid \/ process[listener].by = k
  /\ Kills(k) => MyPid(k) \in Pid
  /\ Kills(k) /\ k \notin swapped => process[MyPid(k)].kind # "other"

PanelInv ==
  /\ step[Panel] \in {"idle", "open", "save", "writing"}
  /\ followup[Panel] = IF step[Panel] \in {"save", "writing"} THEN "open" ELSE "idle"

\* As long as one lmml process works at a time.
SoloInv ==
  ~raced =>
    /\ \A a, b \in Actor : Busy(a) /\ Busy(b) => a = b
    /\ \A a \in Actor : step[a] = "writing" => stateFile = Empty
    /\ \A k \in ProfileCommand : Busy(k) => stateFile.kind # "broken"

Records(s) ==
  \A p \in Pid : process[p].kind = "server" /\ process[p].by = Panel =>
    s.run[process[p].profile] = p

NoneWrites == \A a \in Actor : step[a] # "writing"

\* Whether k has seen that no server of its profile is left.
Cleared(k) ==
  \/ starts[k] /\ step[k] \in {"port", "spawn", "wait", "undo", "save", "writing"}
  \/ followup[k] = "stopped"

\* And none is killed or fails to save: the copy in use is the file's, or the one
\* that is being saved, and each of them records every server.
SoundInv ==
  ~raced /\ ~broken =>
    /\ NoneWrites => /\ stateFile.kind \in {"whole", "missing"}
                     /\ Records(stateFile.state)
    /\ NoneWrites /\ step[Panel] # "save" => stateFile.state.settings = newest
    /\ \A a \in Actor : Busy(a) =>
         /\ step[a] \notin {"save", "writing"} => copy[a] = stateFile.state
         /\ Records(copy[a])
         /\ copy[a].settings = newest
    /\ \A k \in ProfileCommand : Cleared(k) =>
         \A p \in Pid : process[p].kind = "server" /\ process[p].by = Panel =>
           process[p].profile # profile[k]

ProfileIInv ==
  /\ ProfileTypeOK
  /\ \A k \in ProfileCommand : CommandInv(k)
  /\ PanelInv /\ SoloInv /\ SoundInv

LEMMA ProfileNonEmpty == (CHOOSE q \in Profile : TRUE) \in Profile
BY ProfileAssumption

\* The state with another run for the profile of k.
LEMMA RunSet ==
  ASSUME ProfileTypeOK, NEW k \in ProfileCommand, NEW p \in Pid \union {NoPid}
  PROVE  /\ WithRun(k, p) \in ProfileState
         /\ WithRun(k, p).settings = copy[k].settings
         /\ \A q \in Profile : WithRun(k, p).run[q] = IF q = profile[k] THEN p ELSE copy[k].run[q]
<1>1. copy[k] \in ProfileState /\ profile[k] \in Profile
  BY DEF ProfileTypeOK, Actor
<1> DEFINE r == [copy[k].run EXCEPT ![profile[k]] = p]
<1>2. r \in [Profile -> Pid \union {NoPid}]
  BY <1>1 DEF ProfileState
<1>3. WithRun(k, p) = [copy[k] EXCEPT !.run = r]
  BY DEF WithRun
<1>4. \A q \in Profile : r[q] = IF q = profile[k] THEN p ELSE copy[k].run[q]
  BY <1>1 DEF ProfileState
<1> HIDE DEF r
<1> QED BY <1>1, <1>2, <1>3, <1>4 DEF ProfileState

LEMMA ProcessFacts ==
  /\ FreePid \in Process /\ FreePid.kind = "free" /\ FreePid.by = Panel
  /\ \A x \in Process :
       /\ x.kind \in {"server", "zombie", "free", "other", "lookalike"}
       /\ x.by \in Actor /\ x.profile \in Profile
       /\ x.kind = "zombie" => x.by # Panel
       /\ x.by # Panel => x.kind \in {"server", "zombie"}
       /\ x \in [kind : {"server", "zombie", "free", "other", "lookalike"},
                 by : Actor, profile : Profile]
       /\ x.kind = "server" /\ x.by # Panel => [x EXCEPT !.kind = "zombie"] \in Process
       /\ x.kind # "zombie" => [x EXCEPT !.by = Panel] \in Process
  /\ \A k \in ProfileCommand, q \in Profile : ServerProcess(k, q) \in Process
  /\ \A kind \in {"other", "lookalike"} : NoServer(kind) \in Process
<1> USE ProfileNonEmpty
<1>1. FreePid \in Process /\ FreePid.kind = "free" /\ FreePid.by = Panel
  BY DEF FreePid, NoServer, Process
<1>4. \A a \in Actor, q \in Profile : ServerProcess(a, q) \in Process
  BY DEF Process, ServerProcess
<1>5. \A kind \in {"free", "other", "lookalike"} : NoServer(kind) \in Process
  BY DEF Process
<1>6. ASSUME NEW x \in Process
      PROVE  /\ x.kind \in {"server", "zombie", "free", "other", "lookalike"}
             /\ x.by \in Actor /\ x.profile \in Profile
             /\ x.kind = "zombie" => x.by # Panel
             /\ x.by # Panel => x.kind \in {"server", "zombie"}
             /\ x \in [kind : {"server", "zombie", "free", "other", "lookalike"},
                       by : Actor, profile : Profile]
             /\ x.kind = "server" /\ x.by # Panel => [x EXCEPT !.kind = "zombie"] \in Process
             /\ x.kind # "zombie" => [x EXCEPT !.by = Panel] \in Process
  <2> USE DEF Actor
  <2>1. CASE x \in [kind : {"server"}, by : Actor, profile : Profile]
    BY <2>1 DEF Process
  <2>2. CASE x \in [kind : {"zombie"}, by : ProfileCommand, profile : Profile]
    BY <2>2, ProfileAssumption DEF Process
  <2>3. CASE \E kind \in {"free", "other", "lookalike"} : x = NoServer(kind)
    <3>1. PICK kind \in {"free", "other", "lookalike"} : x = NoServer(kind)
      BY <2>3
    <3>2. x.kind = kind /\ x.by = Panel /\ x.profile \in Profile /\ [x EXCEPT !.by = Panel] = x
      BY <3>1 DEF NoServer
    <3>3. x \in [kind : {"server", "zombie", "free", "other", "lookalike"}, by : Actor, profile : Profile]
      BY <3>1 DEF NoServer
    <3> QED BY <3>2, <3>3
  <2> QED BY <2>1, <2>2, <2>3 DEF Process
<1> QED BY <1>1, <1>4, <1>5, <1>6 DEF Actor

\* A process that ends leaves its pid free, or to the command that it is a child of.
LEMMA DiesEffect ==
  ASSUME ProfileTypeOK, NEW p \in Pid, Alive(p), Dies(p)
  PROVE  /\ process' \in [Pid -> Process]
         /\ \A q \in Pid : q # p => process'[q] = process[q]
         /\ process'[p].by = process[p].by
         /\ process'[p].kind \in {"free", "zombie"}
         /\ process'[p].kind = "zombie" <=> process'[p].by # Panel
         /\ process[p].by # Panel => process'[p].profile = process[p].profile
         /\ listener' = IF listener = p THEN NoPid ELSE listener
<1>1. process \in [Pid -> Process] /\ process[p] \in Process
  BY DEF ProfileTypeOK
<1> DEFINE v == Vacated(p)
<1>2. process' = [process EXCEPT ![p] = v] /\ listener' = IF listener = p THEN NoPid ELSE listener
  BY DEF Dies
<1>3. CASE process[p].kind = "server" /\ process[p].by # Panel
  <2>1. v = [process[p] EXCEPT !.kind = "zombie"] /\ v \in Process
    BY <1>1, <1>3, ProcessFacts DEF Vacated
  <2>2. v.kind = "zombie" /\ v.by = process[p].by /\ v.profile = process[p].profile
    <3>1. process[p] \in [kind : {"server", "zombie", "free", "other", "lookalike"},
                           by : Actor, profile : Profile]
      BY <1>1, ProcessFacts
    <3> QED BY <2>1, <3>1
  <2> HIDE DEF v
  <2> QED BY <1>1, <1>2, <1>3, <2>1, <2>2
<1>4. CASE ~(process[p].kind = "server" /\ process[p].by # Panel)
  <2>1. v = FreePid
    BY <1>4 DEF Vacated
  <2>2. process[p].by = Panel
    BY <1>1, <1>4, ProcessFacts DEF Alive
  <2> HIDE DEF v
  <2> QED BY <1>1, <1>2, <2>1, <2>2, ProcessFacts
<1> QED BY <1>3, <1>4

\* When an actor ends, its servers are left running and its zombies are gone.
LEMMA ReapEffect ==
  ASSUME ProfileTypeOK, NEW a \in Actor
  PROVE  /\ Reaped(a) \in [Pid -> Process]
         /\ \A p \in Pid :
              /\ process[p].by # a => Reaped(a)[p] = process[p]
              /\ process[p].by = a =>
                   /\ Reaped(a)[p].by = Panel
                   /\ process[p].kind # "zombie" =>
                        /\ Reaped(a)[p].kind = process[p].kind
                        /\ Reaped(a)[p].profile = process[p].profile
                   /\ process[p].kind = "zombie" => Reaped(a)[p].kind = "free"
<1> SUFFICES ASSUME NEW p \in Pid
             PROVE  /\ Reaped(a)[p] \in Process
                    /\ process[p].by # a => Reaped(a)[p] = process[p]
                    /\ process[p].by = a =>
                         /\ Reaped(a)[p].by = Panel
                         /\ process[p].kind # "zombie" =>
                              /\ Reaped(a)[p].kind = process[p].kind
                              /\ Reaped(a)[p].profile = process[p].profile
                         /\ process[p].kind = "zombie" => Reaped(a)[p].kind = "free"
  BY DEF Reaped
<1> DEFINE x == process[p]
<1>1. x \in Process
  BY DEF ProfileTypeOK
<1>2. Reaped(a)[p] = IF x.by # a THEN x ELSE IF x.kind = "zombie" THEN FreePid ELSE [x EXCEPT !.by = Panel]
  BY DEF Reaped
<1>3. LET y == [x EXCEPT !.by = Panel] IN y.by = Panel /\ y.kind = x.kind /\ y.profile = x.profile
  <2>1. x \in [kind : {"server", "zombie", "free", "other", "lookalike"}, by : Actor, profile : Profile]
    BY <1>1, ProcessFacts
  <2> QED BY <2>1
<1> HIDE DEF x
<1>4. /\ x.kind # "zombie" => [x EXCEPT !.by = Panel] \in Process
      /\ FreePid \in Process /\ FreePid.kind = "free" /\ FreePid.by = Panel
  BY <1>1, ProcessFacts
<1> QED BY <1>1, <1>2, <1>3, <1>4 DEF x

LEMMA StateTypes ==
  /\ DefaultState \in ProfileState
  /\ \A s \in ProfileState : WholeFile(s) \in [kind : {"whole"}, state : ProfileState]
  /\ \A f \in {Empty, BrokenFile, MissingFile} :
       /\ f \in [kind : {"empty", "broken", "missing"}, state : ProfileState]
       /\ f.state = DefaultState
<1>1. DefaultState \in ProfileState
  BY ProfileAssumption DEF DefaultState, ProfileState
<1> QED BY <1>1 DEF WholeFile, Empty, BrokenFile, MissingFile

\* The parts of the type invariant that a step may disturb.
FileType ==
  /\ stateFile \in [kind : {"whole", "empty", "broken", "missing"}, state : ProfileState]
  /\ stateFile.kind # "whole" => stateFile.state = DefaultState
  /\ copy \in [Actor -> ProfileState] /\ newest \in 0 .. MaxSettings

StepType ==
  /\ step \in [Actor -> AtWork \union {"idle"}]
  /\ followup \in [Actor -> AtWork \union Over]
  /\ profile \in [ProfileCommand -> Profile] /\ starts \in [ProfileCommand -> BOOLEAN]
  /\ swapped \subseteq ProfileCommand /\ overtaken \subseteq ProfileCommand

ProcessType ==
  /\ process \in [Pid -> Process]
  /\ listener \in Pid \union {NoPid}
  /\ listener # NoPid => process[listener].kind \in {"server", "other", "lookalike"}

LEMMA TypeParts ==
  ProfileTypeOK <=> FileType /\ StepType /\ ProcessType /\ raced \in BOOLEAN /\ broken \in BOOLEAN
BY DEF ProfileTypeOK, FileType, StepType, ProcessType

LEMMA TypePartsNext ==
  ASSUME FileType', StepType', ProcessType', raced' \in BOOLEAN, broken' \in BOOLEAN
  PROVE  ProfileTypeOK'
BY DEF ProfileTypeOK, FileType, StepType, ProcessType

LEMMA ProfileInitType == ProfileInit => ProfileTypeOK
<1> SUFFICES ASSUME ProfileInit PROVE ProfileTypeOK
  OBVIOUS
<1>1. FileType
  BY StateTypes, ProfileAssumption DEF ProfileInit, FileType, MissingFile
<1>2. StepType
  BY ProfileNonEmpty DEF ProfileInit, StepType, Over
<1>3. ProcessType
  BY ProcessFacts DEF ProfileInit, ProcessType
<1> QED BY <1>1, <1>2, <1>3, TypeParts DEF ProfileInit

LEMMA GoToType ==
  ASSUME StepType, NEW a \in Actor, NEW n \in AtWork, GoTo(a, n) PROVE StepType'
BY DEF StepType, GoTo, Over

LEMMA EndType ==
  ASSUME ProfileTypeOK, NEW a \in Actor, EndActor(a)
  PROVE  StepType' /\ ProcessType' /\ copy' \in [Actor -> ProfileState]
<1>1. StepType /\ ProcessType /\ copy \in [Actor -> ProfileState]
  BY TypeParts DEF FileType
<1>2. StepType'
  <2>1. /\ step' \in [Actor -> AtWork \union {"idle"}]
        /\ followup' \in [Actor -> AtWork \union Over]
    BY <1>1 DEF EndActor, StepType, Over
  <2>2. profile' \in [ProfileCommand -> Profile]
    BY <1>1, ProfileNonEmpty DEF EndActor, StepType
  <2>3. starts' \in [ProfileCommand -> BOOLEAN]
    BY <1>1 DEF EndActor, StepType
  <2>4. swapped' \subseteq ProfileCommand /\ overtaken' \subseteq ProfileCommand
    BY <1>1 DEF EndActor, StepType
  <2> QED BY <2>1, <2>2, <2>3, <2>4 DEF StepType
<1>3. ProcessType'
  <2>1. process' = Reaped(a) /\ listener' = listener
    BY DEF EndActor
  <2>2. listener # NoPid => process'[listener].kind = process[listener].kind
    BY <1>1, <2>1, ReapEffect DEF ProcessType
  <2> QED BY <1>1, <2>1, <2>2, ReapEffect DEF ProcessType
<1>4. copy' \in [Actor -> ProfileState]
  BY <1>1, StateTypes DEF EndActor
<1> QED BY <1>2, <1>3, <1>4

LEMMA SaveType ==
  ASSUME FileType, StepType, NEW a \in Actor, NEW s \in ProfileState,
         NEW n \in AtWork \union Over, SaveAs(a, s, n), newest' \in 0 .. MaxSettings
  PROVE  FileType' /\ StepType'
<1>1. FileType'
  BY DEF FileType, SaveAs
<1>2. StepType'
  BY DEF StepType, SaveAs, AtWork
<1> QED BY <1>1, <1>2

LEMMA LoadType ==
  ASSUME ProfileTypeOK, NEW a \in Actor, NEW n \in {"double", "open"}, LoadState(a, n),
         profile' \in [ProfileCommand -> Profile], starts' \in [ProfileCommand -> BOOLEAN]
  PROVE  ProfileTypeOK'
<1>1. FileType /\ StepType /\ ProcessType /\ broken \in BOOLEAN
  BY TypeParts
<1>2. FileType'
  <2>1. copy' \in [Actor -> ProfileState] /\ newest' = newest
    BY <1>1 DEF LoadState, FileType
  <2>2. stateFile' = stateFile \/ stateFile' = WholeFile(DefaultState)
    BY DEF LoadState
  <2> QED BY <1>1, <2>1, <2>2, StateTypes DEF FileType
<1>3. StepType'
  BY <1>1 DEF LoadState, StepType, AtWork
<1>4. ProcessType'
  BY <1>1 DEF LoadState, ProcessType, processVars
<1>5. raced' \in BOOLEAN
  BY DEF LoadState
<1>6. broken' \in BOOLEAN
  BY <1>1 DEF LoadState
<1> QED BY <1>2, <1>3, <1>4, <1>5, <1>6, TypePartsNext

LEMMA DiesType ==
  ASSUME ProfileTypeOK, NEW p \in Pid, Alive(p), Dies(p) PROVE ProcessType'
<1>1. ProcessType
  BY TypeParts
<1> QED BY <1>1, DiesEffect DEF ProcessType

LEMMA EndsType ==
  ASSUME ProfileTypeOK, NEW a \in Actor, EndActor(a), UNCHANGED <<newest, raced>>,
         broken' \in BOOLEAN,
         stateFile' \in [kind : {"whole", "empty", "broken", "missing"}, state : ProfileState],
         stateFile'.kind # "whole" => stateFile'.state = DefaultState
  PROVE  ProfileTypeOK'
<1>1. StepType' /\ ProcessType' /\ copy' \in [Actor -> ProfileState]
  BY EndType
<1>2. FileType'
  BY <1>1, TypeParts DEF FileType
<1>3. raced' \in BOOLEAN
  BY TypeParts
<1> QED BY <1>1, <1>2, <1>3, TypePartsNext

LEMMA WriteType ==
  ASSUME ProfileTypeOK, NEW k \in Actor, TruncateState(k) \/ WriteState(k) \/ SaveFails(k)
  PROVE  ProfileTypeOK'
<1>1. FileType /\ StepType /\ ProcessType /\ raced \in BOOLEAN /\ broken \in BOOLEAN
  BY TypeParts
<1>4. ASSUME EndActor(k), UNCHANGED <<newest, raced>>, broken' \in BOOLEAN,
             stateFile' \in [kind : {"whole", "empty", "broken", "missing"}, state : ProfileState],
             stateFile'.kind # "whole" => stateFile'.state = DefaultState
      PROVE  ProfileTypeOK'
  BY <1>4, EndsType
<1>6. UNCHANGED processVars => ProcessType'
  BY <1>1 DEF ProcessType, processVars
<1>9. CASE TruncateState(k)
  <2>1. FileType'
    BY <1>1, <1>9, StateTypes DEF TruncateState, FileType, Empty
  <2>2. StepType'
    BY <1>1, <1>9 DEF TruncateState, StepType, AtWork
  <2>3. raced' \in BOOLEAN /\ broken' \in BOOLEAN /\ UNCHANGED processVars
    BY <1>1, <1>9 DEF TruncateState
  <2> QED BY <1>6, <2>1, <2>2, <2>3, TypePartsNext
<1>10. CASE WriteState(k)
  <2>1. /\ stateFile' \in [kind : {"whole", "empty", "broken", "missing"}, state : ProfileState]
        /\ stateFile'.kind # "whole" => stateFile'.state = DefaultState
    BY <1>1, <1>10 DEF WriteState, WholeFile, FileType
  <2>2. broken' \in BOOLEAN /\ raced' \in BOOLEAN /\ UNCHANGED <<newest, raced>>
    BY <1>1, <1>10 DEF WriteState
  <2>3. CASE followup[k] \in Over
    BY <1>4, <1>10, <2>1, <2>2, <2>3 DEF WriteState
  <2>4. CASE followup[k] \notin Over
    <3>1. followup[k] \in AtWork /\ GoTo(k, followup[k]) /\ UNCHANGED <<copy, processVars>>
      BY <1>1, <1>10, <2>4 DEF WriteState, StepType
    <3>2. FileType'
      BY <1>1, <2>1, <2>2, <3>1 DEF FileType
    <3> QED BY <1>1, <1>6, <2>2, <3>1, <3>2, GoToType, TypePartsNext
  <2> QED BY <2>3, <2>4
<1>11. CASE SaveFails(k)
  <2>1. stateFile' = stateFile \/ stateFile' = BrokenFile
    BY <1>11 DEF SaveFails
  <2>2. /\ stateFile' \in [kind : {"whole", "empty", "broken", "missing"}, state : ProfileState]
        /\ stateFile'.kind # "whole" => stateFile'.state = DefaultState
    BY <1>1, <2>1, StateTypes DEF FileType
  <2>3. UNCHANGED <<newest, raced>> /\ broken' \in BOOLEAN
    BY <1>11 DEF SaveFails
  <2>4. CASE k # Panel
    BY <1>4, <1>11, <2>2, <2>3, <2>4 DEF SaveFails
  <2>5. CASE k = Panel
    <3>1. GoTo(k, "open") /\ UNCHANGED <<copy, processVars>>
      BY <1>11, <2>5 DEF SaveFails
    <3>2. FileType'
      BY <1>1, <2>2, <2>3, <3>1 DEF FileType
    <3>3. StepType'
      BY <1>1, <3>1, GoToType DEF AtWork
    <3>4. raced' \in BOOLEAN
      BY <1>1, <2>3
    <3> QED BY <1>6, <2>3, <3>1, <3>2, <3>3, <3>4, TypePartsNext
  <2> QED BY <2>4, <2>5
<1> QED BY <1>9, <1>10, <1>11

\* The steps of a command.
LEMMA CommandType == ASSUME ProfileTypeOK, NEW k \in ProfileCommand, CommandGoes(k) PROVE ProfileTypeOK'
<1>1. FileType /\ StepType /\ ProcessType /\ raced \in BOOLEAN /\ broken \in BOOLEAN
  BY TypeParts
<1>2. k \in Actor /\ MyPid(k) \in Pid \union {NoPid}
  BY <1>1 DEF Actor, MyPid, FileType, StepType, ProfileState
<1>3. ASSUME UNCHANGED <<stateFile, copy, processVars, newest, raced, broken>>, NEW n \in AtWork, GoTo(k, n)
      PROVE  ProfileTypeOK'
  <2>1. FileType' /\ ProcessType' /\ raced' \in BOOLEAN /\ broken' \in BOOLEAN
    BY <1>1, <1>3 DEF FileType, ProcessType, processVars
  <2> QED BY <1>1, <1>2, <1>3, <2>1, GoToType, TypePartsNext
<1>5. ASSUME NEW p \in Pid \union {NoPid}, NEW n \in AtWork \union Over, SaveAs(k, WithRun(k, p), n),
             ProcessType', UNCHANGED newest
      PROVE  ProfileTypeOK'
  <2>1. WithRun(k, p) \in ProfileState
    BY RunSet
  <2>2. newest' \in 0 .. MaxSettings
    BY <1>1, <1>5 DEF FileType
  <2>3. FileType' /\ StepType'
    BY <1>1, <1>2, <1>5, <2>1, <2>2, SaveType
  <2>4. raced' \in BOOLEAN /\ broken' \in BOOLEAN
    BY <1>1, <1>5 DEF SaveAs
  <2> QED BY <1>5, <2>3, <2>4, TypePartsNext
<1>6. UNCHANGED processVars => ProcessType'
  BY <1>1 DEF ProcessType, processVars
<1>7. ASSUME Refuse(k) PROVE ProfileTypeOK'
  <2>1. broken' \in BOOLEAN /\ EndActor(k) /\ UNCHANGED <<newest, raced, stateFile>>
    BY <1>1, <1>7 DEF Refuse
  <2> QED BY <1>1, <1>2, <2>1, EndsType DEF FileType
<1>8. ASSUME IF Alive(MyPid(k)) THEN Dies(MyPid(k)) ELSE UNCHANGED processVars PROVE ProcessType'
  <2>1. CASE Alive(MyPid(k))
    BY <1>2, <1>8, <2>1, DiesType DEF Alive
  <2>2. CASE ~Alive(MyPid(k))
    BY <1>6, <1>8, <2>2
  <2> QED BY <2>1, <2>2
<1>9. CASE TruncateState(k) \/ WriteState(k) \/ SaveFails(k)
  BY <1>2, <1>9, WriteType
<1>12. CASE StartChecks(k)
  BY <1>3, <1>12 DEF StartChecks, AtWork
<1>13. CASE StartRefused(k)
  BY <1>7, <1>13 DEF StartRefused
<1>14. CASE StartSeesPort(k)
  BY <1>3, <1>14 DEF StartSeesPort, AtWork
<1>15. CASE StartPortTaken(k)
  BY <1>7, <1>15 DEF StartPortTaken
<1>16. CASE StartSpawns(k)
  <2>1. PICK p \in Pid : /\ process[p].kind = "free"
                         /\ process' = [process EXCEPT ![p] = ServerProcess(k, profile[k])]
                         /\ SaveAs(k, WithRun(k, p), "wait")
    BY <1>16 DEF StartSpawns
  <2>2. ServerProcess(k, profile[k]) \in Process
    BY <1>1, ProcessFacts DEF StepType
  <2>3. process' \in [Pid -> Process] /\ listener' = listener
    BY <1>1, <1>16, <2>1, <2>2 DEF ProcessType, StartSpawns
  <2>4. listener # NoPid => listener # p
    BY <1>1, <2>1 DEF ProcessType
  <2>5. ProcessType'
    BY <1>1, <2>1, <2>3, <2>4 DEF ProcessType
  <2>6. newest' = newest
    BY <1>16 DEF StartSpawns
  <2> QED BY <1>5, <2>1, <2>5, <2>6 DEF AtWork
<1>17. CASE StartCannotSpawn(k)
  BY <1>7, <1>17 DEF StartCannotSpawn
<1>18. CASE StartReady(k)
  BY <1>2, <1>5, <1>6, <1>18 DEF StartReady, Over
<1>19. CASE StartGivesUp(k)
  BY <1>3, <1>19 DEF StartGivesUp, AtWork
<1>20. CASE StartUndoes(k)
  BY <1>2, <1>5, <1>8, <1>20 DEF StartUndoes, FailedRun, Over
<1>21. CASE StartCannotUndo(k)
  BY <1>2, <1>5, <1>6, <1>21 DEF StartCannotUndo, FailedRun, Over
<1>22. CASE StopClears(k)
  BY <1>2, <1>5, <1>6, <1>22 DEF StopClears, Over
<1>23. CASE StopMismatch(k)
  BY <1>2, <1>5, <1>6, <1>23 DEF StopMismatch, Over
<1>24. CASE StopAnnounces(k)
  BY <1>2, <1>5, <1>6, <1>24 DEF StopAnnounces, AtWork
<1>25. CASE StopKills(k)
  BY <1>2, <1>5, <1>8, <1>25 DEF StopKills, KillWaits, Over
<1>26. CASE StopCannotKill(k)
  BY <1>2, <1>5, <1>6, <1>26 DEF StopCannotKill, Over
<1> QED BY <1>9, <1>12, <1>13, <1>14, <1>15, <1>16, <1>17, <1>18, <1>19, <1>20, <1>21,
           <1>22, <1>23, <1>24, <1>25, <1>26 DEF CommandGoes

LEMMA ProfileNextType == ASSUME ProfileTypeOK, [ProfileNext]_profileVars PROVE ProfileTypeOK'
<1>1. FileType /\ StepType /\ ProcessType /\ raced \in BOOLEAN /\ broken \in BOOLEAN
  BY TypeParts
<1>2. Panel \in Actor /\ \A k \in ProfileCommand : k \in Actor
  BY DEF Actor
<1>3. CASE PanelLoads
  <2>1. profile' \in [ProfileCommand -> Profile] /\ starts' \in [ProfileCommand -> BOOLEAN]
    BY <1>1, <1>3 DEF PanelLoads, StepType
  <2> QED BY <1>2, <1>3, <2>1, LoadType DEF PanelLoads
<1>4. CASE PanelSaves
  <2> DEFINE n == copy[Panel].settings + 1
             s == [copy[Panel] EXCEPT !.settings = n]
  <2>1. n \in 0 .. MaxSettings
    BY <1>1, <1>2, <1>4, ProfileAssumption DEF PanelSaves, FileType, ProfileState
  <2>2. s \in ProfileState
    BY <1>1, <1>2, <2>1 DEF FileType, ProfileState
  <2>3. SaveAs(Panel, s, "open") /\ newest' = n /\ UNCHANGED processVars
    BY <1>4 DEF PanelSaves
  <2> HIDE DEF n, s
  <2>4. "open" \in AtWork
    BY DEF AtWork
  <2>5. FileType' /\ StepType'
    BY <1>1, <1>2, <2>1, <2>2, <2>3, <2>4, SaveType
  <2>6. ProcessType' /\ raced' \in BOOLEAN /\ broken' \in BOOLEAN
    BY <1>1, <2>3 DEF ProcessType, processVars, SaveAs
  <2> QED BY <2>5, <2>6, TypePartsNext
<1>5. CASE PanelQuits
  <2>1. EndActor(Panel) /\ UNCHANGED <<newest, raced, stateFile>> /\ broken' \in BOOLEAN
    BY <1>1, <1>5 DEF PanelQuits
  <2> QED BY <1>1, <1>2, <2>1, EndsType DEF FileType
<1>6. CASE TruncateState(Panel) \/ WriteState(Panel) \/ SaveFails(Panel)
  BY <1>2, <1>6, WriteType
<1>7. ASSUME NEW k \in ProfileCommand, StartLoads(k) \/ StopLoads(k) PROVE ProfileTypeOK'
  <2>1. profile' \in [ProfileCommand -> Profile] /\ starts' \in [ProfileCommand -> BOOLEAN]
    BY <1>1, <1>7 DEF StartLoads, StopLoads, StepType
  <2> QED BY <1>2, <1>7, <2>1, LoadType DEF StartLoads, StopLoads
<1>8. ASSUME NEW a \in Actor, ActorKilled(a) PROVE ProfileTypeOK'
  <2>1. EndActor(a) /\ UNCHANGED <<newest, raced, stateFile>> /\ broken' \in BOOLEAN
    BY <1>8 DEF ActorKilled
  <2> QED BY <1>1, <2>1, EndsType DEF FileType
<1>9. ASSUME NEW p \in Pid, ProcessDies(p) \/ Binds(p) \/ OtherStarts(p) PROVE ProfileTypeOK'
  <2>1. FileType' /\ raced' \in BOOLEAN /\ broken' \in BOOLEAN
    BY <1>1, <1>9 DEF ProcessDies, Binds, OtherStarts, FileType
  <2>2. StepType'
    BY <1>1, <1>9 DEF ProcessDies, Binds, OtherStarts, StepType
  <2>3. ProcessType'
    <3>1. CASE ProcessDies(p)
      BY <3>1, DiesType DEF ProcessDies
    <3>2. CASE Binds(p)
      BY <1>1, <3>2 DEF Binds, ProcessType, Alive
    <3>3. CASE OtherStarts(p)
      <4>1. PICK kind \in {"other", "lookalike"} :
              process' = [process EXCEPT ![p] = NoServer(kind)] /\ listener' = listener
        BY <3>3 DEF OtherStarts
      <4>2. NoServer(kind) \in Process
        BY ProcessFacts
      <4>3. listener # NoPid => listener # p
        BY <1>1, <3>3 DEF OtherStarts, ProcessType
      <4> QED BY <1>1, <4>1, <4>2, <4>3 DEF ProcessType
    <3> QED BY <1>9, <3>1, <3>2, <3>3
  <2> QED BY <2>1, <2>2, <2>3, TypePartsNext
<1>10. CASE UNCHANGED profileVars
  BY <1>10 DEF ProfileTypeOK, profileVars, processVars
<1> QED BY <1>3, <1>4, <1>5, <1>6, <1>7, <1>8, <1>9, <1>10, CommandType DEF ProfileNext

\* What a step of actor a does to the processes of the others: nothing, but for
\* ending them.
SparesOthers(a) ==
  \A p \in Pid :
    /\ \/ /\ process'[p].by = process[p].by
          /\ process[p].by # Panel => process'[p].profile = process[p].profile
       \/ process[p].by \in {a, Panel} /\ process'[p].by \in {a, Panel}
    /\ process'[p].kind = "other" => process[p].kind = "other"

\* What another command does leaves the command k as it is.
LEMMA CommandFrame ==
  ASSUME ProfileTypeOK, NEW k \in ProfileCommand, CommandInv(k),
         NEW a \in Actor \ {k}, SparesOthers(a),
         step'[k] = step[k], followup'[k] = followup[k], copy'[k] = copy[k],
         profile'[k] = profile[k], starts'[k] = starts[k],
         listener' = NoPid \/ listener' = listener,
         k \in overtaken => k \in overtaken', k \in swapped => k \in swapped'
  PROVE  CommandInv(k)'
<1>1. MyPid(k)' = MyPid(k) /\ (Spawned(k)' <=> Spawned(k)) /\ (Kills(k)' <=> Kills(k))
      /\ (TrustsPort(k)' <=> TrustsPort(k))
  BY DEF MyPid, Spawned, Kills, TrustsPort
<1>2. k # Panel
  BY ProfileAssumption
<1>3. \A p \in Pid : process'[p].by = k <=> process[p].by = k
  BY <1>2 DEF SparesOthers
<1>4. \A p \in Pid : process[p].by = k => process'[p].profile = process[p].profile
  BY <1>2 DEF SparesOthers
<1>5. \A p \in Pid : process'[p].kind = "other" => process[p].kind = "other"
  BY DEF SparesOthers
<1>6. listener \in Pid \union {NoPid}
  BY DEF ProfileTypeOK
<1> QED BY <1>1, <1>3, <1>4, <1>5, <1>6 DEF CommandInv

LEMMA SpawnEffect ==
  ASSUME ProfileTypeOK, NEW k \in ProfileCommand, NEW p \in Pid, process[p].kind = "free",
         process' = [process EXCEPT ![p] = ServerProcess(k, profile[k])]
  PROVE  /\ process[p].by = Panel
         /\ process'[p].by = k /\ process'[p].kind = "server" /\ process'[p].profile = profile[k]
         /\ \A q \in Pid : q # p => process'[q] = process[q]
<1>1. process \in [Pid -> Process] /\ process[p] \in Process
  BY DEF ProfileTypeOK
<1>2. process[p].by = Panel
  BY <1>1, ProcessFacts
<1> QED BY <1>1, <1>2 DEF ServerProcess

LEMMA SparesByDying ==
  ASSUME ProfileTypeOK, NEW a \in Actor, NEW p \in Pid, Alive(p), Dies(p)
  PROVE  SparesOthers(a) /\ (listener' = NoPid \/ listener' = listener)
BY DiesEffect DEF SparesOthers

LEMMA SparesByEnding ==
  ASSUME ProfileTypeOK, NEW a \in Actor, EndActor(a)
  PROVE  SparesOthers(a) /\ listener' = listener
<1>1. process' = Reaped(a) /\ listener' = listener
  BY DEF EndActor
<1>2. \A p \in Pid : process[p].kind \in {"server", "zombie", "free", "other", "lookalike"}
  BY ProcessFacts DEF ProfileTypeOK
<1> QED BY <1>1, <1>2, ReapEffect DEF SparesOthers

LEMMA SparesBySpawning ==
  ASSUME ProfileTypeOK, NEW k \in ProfileCommand, NEW p \in Pid, process[p].kind = "free",
         process' = [process EXCEPT ![p] = ServerProcess(k, profile[k])]
  PROVE  SparesOthers(k)
BY SpawnEffect DEF SparesOthers

LEMMA SparesByNothing ==
  ASSUME UNCHANGED processVars, NEW a \in Actor PROVE SparesOthers(a) /\ listener' = listener
BY DEF processVars, SparesOthers

\* The steps of an actor leave the variables of the others alone.
LEMMA ActorFrame ==
  ASSUME ProfileTypeOK, NEW a \in Actor,
         \/ a = Panel /\ (PanelLoads \/ PanelSaves \/ PanelQuits)
         \/ TruncateState(a) \/ WriteState(a) \/ SaveFails(a) \/ ActorKilled(a)
         \/ a \in ProfileCommand /\ (StartLoads(a) \/ StopLoads(a) \/ CommandGoes(a)),
         NEW k \in ProfileCommand, k # a
  PROVE  /\ step'[k] = step[k] /\ followup'[k] = followup[k] /\ copy'[k] = copy[k]
         /\ profile'[k] = profile[k] /\ starts'[k] = starts[k]
         /\ k \in overtaken => k \in overtaken'
         /\ k \in swapped => k \in swapped'
<1> USE DEF SaveAs, GoTo, Refuse, LoadState, processVars
<1>0. /\ step \in [Actor -> AtWork \union {"idle"}] /\ followup \in [Actor -> AtWork \union Over]
      /\ copy \in [Actor -> ProfileState] /\ profile \in [ProfileCommand -> Profile]
      /\ starts \in [ProfileCommand -> BOOLEAN] /\ k \in Actor
  BY DEF ProfileTypeOK, Actor
<1> DEFINE Frame ==
             /\ step'[k] = step[k] /\ followup'[k] = followup[k] /\ copy'[k] = copy[k]
             /\ profile'[k] = profile[k] /\ starts'[k] = starts[k]
             /\ k \in overtaken => k \in overtaken'
             /\ k \in swapped => k \in swapped'
<1>1. EndActor(a) => Frame
  BY <1>0 DEF EndActor
<1>2. \A n : GoTo(a, n) /\ copy' = copy => Frame
  BY <1>0
<1>3. \A s, n : SaveAs(a, s, n) => Frame
  BY <1>0
<1>4. \A n : LoadState(a, n) /\ profile'[k] = profile[k] /\ starts'[k] = starts[k] => Frame
  BY <1>0
<1>5. TruncateState(a) => Frame
  BY <1>0 DEF TruncateState
<1> HIDE DEF Frame, SaveAs, GoTo, LoadState
<1>6. WriteState(a) \/ SaveFails(a) \/ ActorKilled(a) => Frame
  BY <1>1, <1>2 DEF WriteState, SaveFails, ActorKilled
<1>7. a = Panel /\ (PanelLoads \/ PanelSaves \/ PanelQuits) => Frame
  BY <1>1, <1>3, <1>4 DEF PanelLoads, PanelSaves, PanelQuits
<1>8. a \in ProfileCommand /\ (StartLoads(a) \/ StopLoads(a)) => Frame
  BY <1>0, <1>4 DEF StartLoads, StopLoads
<1>9. a \in ProfileCommand /\ CommandGoes(a) => Frame
  BY <1>1, <1>2, <1>3, <1>5, <1>6
     DEF CommandGoes, StartChecks, StartRefused, StartSeesPort, StartPortTaken, StartSpawns,
         StartCannotSpawn, StartReady, StartGivesUp, StartUndoes, StartCannotUndo, StopClears,
         StopMismatch, StopAnnounces, StopKills, StopCannotKill
<1> QED BY <1>5, <1>6, <1>7, <1>8, <1>9 DEF Frame

LEMMA ActorSpares ==
  ASSUME ProfileTypeOK, NEW a \in Actor,
         \/ a = Panel /\ (PanelLoads \/ PanelSaves \/ PanelQuits)
         \/ TruncateState(a) \/ WriteState(a) \/ SaveFails(a) \/ ActorKilled(a)
         \/ a \in ProfileCommand /\ (StartLoads(a) \/ StopLoads(a) \/ CommandGoes(a))
  PROVE  SparesOthers(a) /\ (listener' = NoPid \/ listener' = listener)
<1> DEFINE Spares == SparesOthers(a) /\ (listener' = NoPid \/ listener' = listener)
<1>1. UNCHANGED processVars => Spares
  BY SparesByNothing
<1>2. EndActor(a) => Spares
  BY SparesByEnding
<1>3. a \in ProfileCommand => MyPid(a) \in Pid \union {NoPid}
  BY DEF Actor, MyPid, ProfileTypeOK, ProfileState
<1>4. a \in ProfileCommand /\ (IF Alive(MyPid(a)) THEN Dies(MyPid(a)) ELSE UNCHANGED processVars) => Spares
  BY <1>1, <1>3, SparesByDying DEF Alive
<1>5. a \in ProfileCommand /\ StartSpawns(a) => Spares
  BY SparesBySpawning DEF StartSpawns
<1> HIDE DEF Spares
<1>6. TruncateState(a) => Spares
  BY <1>1 DEF TruncateState
<1>7. WriteState(a) \/ SaveFails(a) \/ ActorKilled(a) => Spares
  BY <1>1, <1>2 DEF WriteState, SaveFails, ActorKilled
<1>8. a = Panel /\ (PanelLoads \/ PanelSaves \/ PanelQuits) => Spares
  BY <1>1, <1>2 DEF PanelLoads, PanelSaves, PanelQuits, LoadState
<1>9. a \in ProfileCommand /\ (StartLoads(a) \/ StopLoads(a)) => Spares
  BY <1>1 DEF StartLoads, StopLoads, LoadState
<1>10. a \in ProfileCommand /\ CommandGoes(a) => Spares
  BY <1>1, <1>2, <1>4, <1>5, <1>6, <1>7
     DEF CommandGoes, StartChecks, StartRefused, StartSeesPort, StartPortTaken,
         StartCannotSpawn, StartReady, StartGivesUp, StartUndoes, StartCannotUndo, StopClears,
         StopMismatch, StopAnnounces, StopKills, KillWaits, StopCannotKill, Refuse
<1> QED BY <1>6, <1>7, <1>8, <1>9, <1>10 DEF Spares

-----------------------------------------------------------------------------
(* The command's own steps. *)

LEMMA SelfEnds ==
  ASSUME ProfileTypeOK, NEW k \in ProfileCommand, EndActor(k)
  PROVE  CommandInv(k)'
<1>1. k \in Actor /\ k # Panel /\ k \in ProfileCommand
  BY ProfileAssumption DEF Actor
<1>2. step'[k] = "idle" /\ followup'[k] = "idle" /\ starts'[k] = FALSE
  BY <1>1 DEF EndActor, ProfileTypeOK
<1>3. \A p \in Pid : process'[p].by # k
  <2>1. process' = Reaped(k)
    BY DEF EndActor
  <2> QED BY <1>1, <2>1, ReapEffect
<1> QED BY <1>2, <1>3 DEF CommandInv, Spawned, TrustsPort, Kills

\* Its child is the process of its copy, whether or not that has ended.
LEMMA SelfGoes ==
  ASSUME ProfileTypeOK, NEW k \in ProfileCommand, CommandInv(k), NEW n \in AtWork,
         GoTo(k, n), copy' = copy, UNCHANGED processVars,
         \/ n = "port" /\ step[k] = "double" /\ starts[k]
         \/ n = "spawn" /\ step[k] = "port" /\ PortIsFree
         \/ n = "undo" /\ step[k] = "wait"
         \/ n = followup[k] /\ step[k] = "writing" /\ followup[k] \notin Over
  PROVE  CommandInv(k)'
<1>1. step'[k] = n /\ followup'[k] = "idle" /\ k \in Actor
  BY DEF GoTo, ProfileTypeOK, Actor
<1>2. UNCHANGED <<profile, starts, swapped, overtaken, process, listener>> /\ MyPid(k)' = MyPid(k)
  BY DEF GoTo, processVars, MyPid
<1>3. CASE n = "port" /\ step[k] = "double" /\ starts[k]
  BY <1>1, <1>2, <1>3 DEF CommandInv, Spawned, TrustsPort, Kills
<1>4. CASE n = "spawn" /\ step[k] = "port" /\ PortIsFree
  BY <1>1, <1>2, <1>4 DEF CommandInv, Spawned, TrustsPort, Kills, PortIsFree
<1>5. CASE n = "undo" /\ step[k] = "wait"
  BY <1>1, <1>2, <1>5 DEF CommandInv, Spawned, TrustsPort, Kills
<1>6. CASE n = followup[k] /\ step[k] = "writing" /\ followup[k] \notin Over
  <2>1. n \in {"wait", "kill"}
    BY <1>6 DEF CommandInv, Over
  <2> QED BY <1>1, <1>2, <1>6, <2>1 DEF CommandInv, Spawned, TrustsPort, Kills
<1> QED BY <1>3, <1>4, <1>5, <1>6

LEMMA SelfSaves ==
  ASSUME ProfileTypeOK, NEW k \in ProfileCommand, CommandInv(k), NEW p \in Pid \union {NoPid},
         NEW n, SaveAs(k, WithRun(k, p), n),
         \/ /\ n = "started" /\ step[k] = "wait" /\ p = MyPid(k) /\ UNCHANGED processVars
         \/ /\ n = "refused" /\ step[k] \in {"undo", "kill"} /\ p = MyPid(k)
            /\ \/ UNCHANGED processVars
               \/ Alive(MyPid(k)) /\ Dies(MyPid(k))
         \/ /\ n \in {"refused", "stopped"} /\ step[k] = "double" /\ ~starts[k]
            /\ UNCHANGED processVars
         \/ /\ n = "kill" /\ step[k] = "double" /\ ~starts[k] /\ UNCHANGED processVars
            /\ p = MyPid(k) /\ Alive(p) /\ Recognised(k)
         \/ /\ n = "stopped" /\ step[k] = "kill"
            /\ UNCHANGED processVars \/ (Alive(MyPid(k)) /\ Dies(MyPid(k)))
  PROVE  CommandInv(k)'
<1>1. step'[k] = "save" /\ followup'[k] = n /\ k \in Actor /\ k # Panel
  BY ProfileAssumption DEF SaveAs, ProfileTypeOK, Actor
<1>2. UNCHANGED <<profile, starts, swapped, overtaken>>
  BY DEF SaveAs
<1>3. MyPid(k)' = p
  <2>1. copy'[k] = WithRun(k, p) /\ profile[k] \in Profile
    BY <1>1 DEF SaveAs, ProfileTypeOK
  <2> QED BY <1>2, <2>1, RunSet DEF MyPid
<1>4. /\ \A q \in Pid : process'[q].by = process[q].by
      /\ \A q \in Pid : process[q].by = k => process'[q].profile = process[q].profile
      /\ \A q \in Pid : process'[q].kind = "other" => process[q].kind = "other"
      /\ listener' = NoPid \/ listener' = listener
  <2>1. CASE UNCHANGED processVars
    BY <2>1 DEF processVars
  <2>2. CASE Alive(MyPid(k)) /\ Dies(MyPid(k))
    <3>1. MyPid(k) \in Pid
      BY <1>1, <2>2 DEF Alive, MyPid, ProfileTypeOK, ProfileState
    <3> QED BY <1>1, <2>2, <3>1, DiesEffect
  <2> QED BY <2>1, <2>2
<1>5. listener \in Pid \union {NoPid}
  BY DEF ProfileTypeOK
<1>6. CASE n = "started" /\ step[k] = "wait" /\ p = MyPid(k)
  BY <1>1, <1>2, <1>3, <1>4, <1>6 DEF CommandInv, Spawned, TrustsPort, Kills
<1>7. CASE n = "refused" /\ step[k] \in {"undo", "kill"} /\ p = MyPid(k)
  BY <1>1, <1>2, <1>3, <1>4, <1>7 DEF CommandInv, Spawned, TrustsPort, Kills
<1>8. CASE n \in {"refused", "stopped"} /\ step[k] = "double" /\ ~starts[k]
  BY <1>1, <1>2, <1>3, <1>4, <1>8 DEF CommandInv, Spawned, TrustsPort, Kills
<1>9. CASE n = "kill" /\ step[k] = "double" /\ ~starts[k] /\ p = MyPid(k) /\ Alive(p) /\ Recognised(k)
           /\ UNCHANGED processVars
  <2>1. p \in Pid /\ process[p].kind # "other" /\ process' = process
    BY <1>9 DEF Alive, Recognised, LooksLikeServer, processVars
  <2> QED BY <1>1, <1>2, <1>3, <1>4, <1>9, <2>1 DEF CommandInv, Spawned, TrustsPort, Kills
<1>10. CASE n = "stopped" /\ step[k] = "kill"
  BY <1>1, <1>2, <1>3, <1>4, <1>10 DEF CommandInv, Spawned, TrustsPort, Kills
<1> QED BY <1>6, <1>7, <1>8, <1>9, <1>10

LEMMA SelfSpawns ==
  ASSUME ProfileTypeOK, NEW k \in ProfileCommand, CommandInv(k), StartSpawns(k)
  PROVE  CommandInv(k)'
<1>1. PICK p \in Pid : /\ process[p].kind = "free"
                       /\ process' = [process EXCEPT ![p] = ServerProcess(k, profile[k])]
                       /\ SaveAs(k, WithRun(k, p), "wait")
  BY DEF StartSpawns
<1>2. step'[k] = "save" /\ followup'[k] = "wait" /\ k \in Actor /\ k # Panel
  BY <1>1, ProfileAssumption DEF SaveAs, ProfileTypeOK, Actor
<1>3. UNCHANGED <<profile, starts, swapped, overtaken, listener>> /\ step[k] = "spawn"
  BY <1>1 DEF SaveAs, StartSpawns
<1>4. MyPid(k)' = p
  <2>1. copy'[k] = WithRun(k, p) /\ profile[k] \in Profile
    BY <1>1, <1>2 DEF SaveAs, ProfileTypeOK
  <2> QED BY <1>3, <2>1, RunSet DEF MyPid
<1>5. /\ process'[p].by = k /\ process'[p].kind = "server" /\ process'[p].profile = profile[k]
      /\ \A q \in Pid : q # p => process'[q] = process[q]
  <2>1. process[p].kind = "free" /\ process' = [process EXCEPT ![p] = ServerProcess(k, profile[k])]
    BY <1>1
  <2>2. process \in [Pid -> Process]
    BY DEF ProfileTypeOK
  <2> QED BY <2>1, <2>2 DEF ServerProcess
<1>6. \A q \in Pid : process[q].by # k
  BY <1>3 DEF CommandInv, Spawned
<1>7. listener \in Pid \union {NoPid}
  BY DEF ProfileTypeOK
<1> QED BY <1>2, <1>3, <1>4, <1>5, <1>6, <1>7 DEF CommandInv, Spawned, TrustsPort, Kills

LEMMA SelfLoads ==
  ASSUME ProfileTypeOK, NEW k \in ProfileCommand, CommandInv(k), StartLoads(k) \/ StopLoads(k)
  PROVE  CommandInv(k)'
<1>1. /\ step[k] = "idle" /\ step'[k] = "double" /\ followup' = followup
      /\ UNCHANGED <<process, listener, swapped, overtaken>>
  BY DEF StartLoads, StopLoads, LoadState, ProfileTypeOK, Actor, processVars
<1>2. followup[k] = "idle" /\ \A p \in Pid : process[p].by # k
  BY <1>1 DEF CommandInv, Spawned
<1> QED BY <1>1, <1>2 DEF CommandInv, Spawned, TrustsPort, Kills

LEMMA SelfTruncates ==
  ASSUME ProfileTypeOK, NEW k \in ProfileCommand, CommandInv(k), TruncateState(k)
  PROVE  CommandInv(k)'
<1>1. step[k] = "save" /\ step'[k] = "writing"
  BY DEF TruncateState, ProfileTypeOK, Actor
<1>2. UNCHANGED <<followup, profile, starts, process, listener, swapped, overtaken>>
      /\ MyPid(k)' = MyPid(k)
  BY DEF TruncateState, processVars, MyPid
<1> QED BY <1>1, <1>2 DEF CommandInv, Spawned, TrustsPort, Kills

LEMMA CommandOwn ==
  ASSUME ProfileTypeOK, NEW k \in ProfileCommand, CommandInv(k),
         StartLoads(k) \/ StopLoads(k) \/ CommandGoes(k) \/ ActorKilled(k)
  PROVE  CommandInv(k)'
<1> DEFINE p == MyPid(k)
<1>1. p \in Pid \union {NoPid} /\ k # Panel /\ k \in Actor
  BY ProfileAssumption DEF Actor, MyPid, ProfileTypeOK, ProfileState
<1>2. EndActor(k) => CommandInv(k)'
  BY SelfEnds
<1> HIDE DEF p
<1>3. CASE StartLoads(k) \/ StopLoads(k)
  BY <1>3, SelfLoads
<1>4. CASE ActorKilled(k) \/ SaveFails(k)
  BY <1>1, <1>2, <1>4 DEF ActorKilled, SaveFails
<1>5. CASE TruncateState(k)
  BY <1>5, SelfTruncates
<1>6. CASE WriteState(k)
  <2>1. CASE followup[k] \in Over
    BY <1>2, <1>6, <2>1 DEF WriteState
  <2>2. CASE followup[k] \notin Over
    <3>1. /\ GoTo(k, followup[k]) /\ UNCHANGED <<copy, processVars>> /\ step[k] = "writing"
          /\ followup[k] \in AtWork
      BY <1>1, <1>6, <2>2 DEF WriteState, ProfileTypeOK
    <3> QED BY <2>2, <3>1, SelfGoes
  <2> QED BY <2>1, <2>2
<1>7. CASE StartRefused(k) \/ StartPortTaken(k) \/ StartCannotSpawn(k)
  BY <1>2, <1>7 DEF StartRefused, StartPortTaken, StartCannotSpawn, Refuse
<1>8. CASE StartChecks(k)
  BY <1>8, SelfGoes DEF StartChecks, AtWork
<1>9. CASE StartSeesPort(k)
  BY <1>9, SelfGoes DEF StartSeesPort, AtWork
<1>10. CASE StartSpawns(k)
  BY <1>10, SelfSpawns
<1>11. CASE StartReady(k)
  BY <1>1, <1>11, SelfSaves DEF StartReady, p
<1>12. CASE StartGivesUp(k)
  BY <1>12, SelfGoes DEF StartGivesUp, AtWork
<1>13. CASE StartUndoes(k) \/ StartCannotUndo(k)
  <2>1. /\ SaveAs(k, WithRun(k, p), "refused") /\ step[k] = "undo"
        /\ UNCHANGED processVars \/ (Alive(MyPid(k)) /\ Dies(MyPid(k)))
    <3>1. CASE StartUndoes(k)
      <4>1. SaveAs(k, WithRun(k, p), "refused") /\ step[k] = "undo"
        BY <3>1 DEF StartUndoes, FailedRun, p
      <4>2. CASE Alive(MyPid(k))
        <5>1. Dies(MyPid(k))
          BY <3>1, <4>2 DEF StartUndoes
        <5> QED BY <4>1, <4>2, <5>1
      <4>3. CASE ~Alive(MyPid(k))
        <5>1. UNCHANGED processVars
          BY <3>1, <4>3 DEF StartUndoes
        <5> QED BY <4>1, <5>1
      <4> QED BY <4>2, <4>3
    <3>2. CASE StartCannotUndo(k)
      <4>1. SaveAs(k, WithRun(k, p), "refused") /\ step[k] = "undo"
        BY <3>2 DEF StartCannotUndo, FailedRun, p
      <4>2. UNCHANGED processVars
        BY <3>2 DEF StartCannotUndo
      <4> QED BY <4>1, <4>2
    <3> QED BY <1>13, <3>1, <3>2
  <2> QED BY <1>1, <2>1, SelfSaves DEF p
<1>14. CASE StopClears(k)
  <2>1. SaveAs(k, WithRun(k, NoPid), "stopped") /\ step[k] = "double" /\ ~starts[k] /\ UNCHANGED processVars
    BY <1>14 DEF StopClears
  <2> QED BY <2>1, SelfSaves
<1>15. CASE StopMismatch(k)
  <2>1. SaveAs(k, WithRun(k, p), "refused") /\ step[k] = "double" /\ ~starts[k] /\ UNCHANGED processVars
    BY <1>15 DEF StopMismatch, p
  <2> QED BY <1>1, <2>1, SelfSaves
<1>16. CASE StopAnnounces(k)
  BY <1>1, <1>16, SelfSaves DEF StopAnnounces, p
<1>17. CASE StopKills(k)
  <2>1. /\ SaveAs(k, WithRun(k, NoPid), "stopped") /\ step[k] = "kill"
        /\ UNCHANGED processVars \/ (Alive(MyPid(k)) /\ Dies(MyPid(k)))
    <3>1. /\ SaveAs(k, WithRun(k, NoPid), "stopped") /\ step[k] = "kill"
          /\ IF Alive(MyPid(k)) THEN Dies(MyPid(k)) ELSE UNCHANGED processVars
      BY <1>17 DEF StopKills, KillWaits
    <3>2. CASE Alive(MyPid(k))
      BY <3>1, <3>2
    <3>3. CASE ~Alive(MyPid(k))
      <4>1. UNCHANGED processVars
        BY <3>1, <3>3
      <4> QED BY <3>1, <4>1
    <3> QED BY <3>2, <3>3
  <2> QED BY <2>1, SelfSaves
<1>18. CASE StopCannotKill(k)
  <2>1. SaveAs(k, WithRun(k, p), "refused") /\ step[k] = "kill" /\ UNCHANGED processVars
    BY <1>18 DEF StopCannotKill, p
  <2> QED BY <1>1, <2>1, SelfSaves DEF p
<1> QED BY <1>3, <1>4, <1>5, <1>6, <1>7, <1>8, <1>9, <1>10, <1>11, <1>12, <1>13, <1>14, <1>15, <1>16,
           <1>17, <1>18 DEF CommandGoes

\* What happens outside of the commands.
LEMMA CommandOutside ==
  ASSUME ProfileTypeOK, NEW k \in ProfileCommand, CommandInv(k), NEW p \in Pid,
         ProcessDies(p) \/ Binds(p) \/ OtherStarts(p)
  PROVE  CommandInv(k)'
<1>1. /\ UNCHANGED <<copy, step, followup, profile, starts>>
      /\ MyPid(k)' = MyPid(k) /\ (Spawned(k)' <=> Spawned(k)) /\ (Kills(k)' <=> Kills(k))
      /\ (TrustsPort(k)' <=> TrustsPort(k)) /\ Panel # k
  BY ProfileAssumption DEF ProcessDies, Binds, OtherStarts, MyPid, Spawned, Kills, TrustsPort
<1>2. CASE ProcessDies(p)
  <2>1. SparesOthers(Panel) /\ (listener' = NoPid \/ listener' = listener)
    BY <1>2, SparesByDying DEF ProcessDies, Actor
  <2>2. UNCHANGED <<swapped, overtaken>>
    BY <1>2 DEF ProcessDies
  <2> QED BY <1>1, <2>1, <2>2, CommandFrame DEF Actor
<1>3. CASE Binds(p)
  <2>1. /\ process' = process /\ swapped' = swapped /\ listener' = p
        /\ TrustsPort(k) /\ process[p].by # k => k \in overtaken'
        /\ k \in overtaken => k \in overtaken'
    BY <1>3 DEF Binds, TrustsPort
  <2> QED BY <1>1, <2>1 DEF CommandInv
<1>4. CASE OtherStarts(p)
  <2>1. PICK kind \in {"other", "lookalike"} : process' = [process EXCEPT ![p] = NoServer(kind)]
    BY <1>4 DEF OtherStarts
  <2>2. process[p].by = Panel /\ process[p].kind = "free"
    BY <1>4, ProcessFacts DEF OtherStarts, ProfileTypeOK
  <2>3. process'[p].by = Panel /\ \A q \in Pid : q # p => process'[q] = process[q]
    BY <2>1 DEF NoServer, ProfileTypeOK
  <2>4. UNCHANGED <<listener, overtaken>> /\ (k \in swapped => k \in swapped')
        /\ (Kills(k) /\ MyPid(k) = p => k \in swapped')
    BY <1>4 DEF OtherStarts, Kills
  <2>5. listener \in Pid \union {NoPid} /\ listener # p
    BY <2>2, TypeParts, ProfileAssumption DEF ProcessType
  <2> QED BY <1>1, <2>2, <2>3, <2>4, <2>5 DEF CommandInv
<1> QED BY <1>2, <1>3, <1>4

LEMMA CommandStutter ==
  ASSUME NEW k \in ProfileCommand, CommandInv(k), UNCHANGED profileVars PROVE CommandInv(k)'
BY DEF profileVars, processVars, CommandInv, Spawned, Kills, TrustsPort, MyPid

LEMMA CommandNext ==
  ASSUME ProfileTypeOK, NEW k \in ProfileCommand, CommandInv(k), [ProfileNext]_profileVars
  PROVE  CommandInv(k)'
<1>1. ASSUME NEW a \in Actor,
             \/ a = Panel /\ (PanelLoads \/ PanelSaves \/ PanelQuits)
             \/ TruncateState(a) \/ WriteState(a) \/ SaveFails(a) \/ ActorKilled(a)
             \/ a \in ProfileCommand /\ (StartLoads(a) \/ StopLoads(a) \/ CommandGoes(a)),
             a # k
      PROVE  CommandInv(k)'
  BY <1>1, ActorFrame, ActorSpares, CommandFrame
<1>2. Panel \in Actor /\ Panel # k /\ \A j \in ProfileCommand : j \in Actor
  BY ProfileAssumption DEF Actor
<1>3. CASE \E a \in Actor : ActorKilled(a)
  BY <1>1, <1>3, CommandOwn
<1>4. CASE \E j \in ProfileCommand : StartLoads(j) \/ StopLoads(j) \/ CommandGoes(j)
  BY <1>1, <1>2, <1>4, CommandOwn
<1> QED BY <1>1, <1>2, <1>3, <1>4, CommandOutside, CommandStutter DEF ProfileNext

-----------------------------------------------------------------------------
(* The panel. *)

LEMMA PanelNext == ASSUME ProfileTypeOK, PanelInv, [ProfileNext]_profileVars PROVE PanelInv'
<1>0. /\ step \in [Actor -> AtWork \union {"idle"}] /\ followup \in [Actor -> AtWork \union Over]
      /\ Panel \in Actor /\ Panel \notin ProfileCommand
  BY ProfileAssumption DEF ProfileTypeOK, Actor
<1>1. step'[Panel] = step[Panel] /\ followup'[Panel] = followup[Panel] => PanelInv'
  BY DEF PanelInv
<1>2. EndActor(Panel) => PanelInv'
  BY <1>0 DEF EndActor, PanelInv
<1>3. \A s : SaveAs(Panel, s, "open") => PanelInv'
  BY <1>0 DEF SaveAs, PanelInv
<1>4. GoTo(Panel, "open") => PanelInv'
  BY <1>0 DEF GoTo, PanelInv
<1>5. ASSUME NEW a \in Actor \ {Panel},
             \/ EndActor(a) \/ TruncateState(a) \/ (\E n \in AtWork : GoTo(a, n) \/ LoadState(a, n))
             \/ \E s, n : SaveAs(a, s, n)
      PROVE  PanelInv'
  <2>1. step'[Panel] = step[Panel] /\ followup'[Panel] = followup[Panel]
    BY <1>0, <1>5 DEF EndActor, TruncateState, GoTo, LoadState, SaveAs
  <2> QED BY <1>1, <2>1
<1>6. CASE PanelLoads
  <2>1. step[Panel] = "idle" /\ step'[Panel] = "open" /\ followup' = followup
    BY <1>0, <1>6 DEF PanelLoads, LoadState
  <2> QED BY <2>1 DEF PanelInv
<1>7. CASE PanelSaves
  BY <1>3, <1>7 DEF PanelSaves
<1>8. CASE PanelQuits \/ ActorKilled(Panel)
  BY <1>2, <1>8 DEF PanelQuits, ActorKilled
<1>9. CASE TruncateState(Panel)
  <2>1. step[Panel] = "save" /\ step'[Panel] = "writing" /\ followup' = followup
    BY <1>0, <1>9 DEF TruncateState
  <2> QED BY <2>1 DEF PanelInv
<1>10. CASE WriteState(Panel)
  <2>1. followup[Panel] = "open" /\ followup[Panel] \notin Over
    BY <1>10 DEF WriteState, PanelInv, Over
  <2> QED BY <1>4, <1>10, <2>1 DEF WriteState
<1>11. CASE SaveFails(Panel)
  BY <1>4, <1>11 DEF SaveFails
<1>12. ASSUME NEW a \in Actor \ {Panel}, ActorKilled(a) PROVE PanelInv'
  BY <1>5, <1>12 DEF ActorKilled
<1>13. ASSUME NEW k \in ProfileCommand, StartLoads(k) \/ StopLoads(k) PROVE PanelInv'
  BY <1>0, <1>5, <1>13 DEF StartLoads, StopLoads, AtWork, Actor
<1>14. ASSUME NEW k \in ProfileCommand, CommandGoes(k) PROVE PanelInv'
  <2>1. k \in Actor \ {Panel}
    BY <1>0 DEF Actor
  <2>2. WriteState(k) => EndActor(k) \/ \E n \in AtWork : GoTo(k, n)
    BY <1>0, <2>1 DEF WriteState
  <2>3. SaveFails(k) => EndActor(k)
    BY <2>1 DEF SaveFails
  <2> QED BY <1>5, <1>14, <2>1, <2>2, <2>3
     DEF CommandGoes, StartChecks, StartRefused, StartSeesPort, StartPortTaken, StartSpawns,
         StartCannotSpawn, StartReady, StartGivesUp, StartUndoes, StartCannotUndo, StopClears,
         StopMismatch, StopAnnounces, StopKills, StopCannotKill, Refuse, AtWork
<1>15. ASSUME NEW p \in Pid, ProcessDies(p) \/ Binds(p) \/ OtherStarts(p) PROVE PanelInv'
  BY <1>1, <1>15 DEF ProcessDies, Binds, OtherStarts
<1>16. CASE UNCHANGED profileVars
  BY <1>1, <1>16 DEF profileVars
<1> QED BY <1>6, <1>7, <1>8, <1>9, <1>10, <1>11, <1>12, <1>13, <1>14, <1>15, <1>16 DEF ProfileNext

-----------------------------------------------------------------------------
(* One process at a time. *)

LEMMA BusySteps == "idle" \notin AtWork /\ AtWork \cap Over = {}
BY DEF AtWork, Over

\* What a step of an actor that is at work does to the file and the steps.
LEMMA BusyEffect ==
  ASSUME ProfileTypeOK, PanelInv, \A k \in ProfileCommand : CommandInv(k), NEW a \in Actor,
         \/ a = Panel /\ (PanelSaves \/ PanelQuits)
         \/ TruncateState(a) \/ WriteState(a) \/ SaveFails(a) \/ ActorKilled(a)
         \/ a \in ProfileCommand /\ CommandGoes(a)
  PROVE  /\ Busy(a) /\ raced' = raced
         /\ \A b \in Actor \ {a} : step'[b] = step[b]
         /\ \/ stateFile' = stateFile /\ step'[a] # "writing"
            \/ stateFile' = Empty /\ step'[a] = "writing"
            \/ stateFile' = WholeFile(copy[a]) /\ step[a] = "writing" /\ step'[a] # "writing"
            \/ /\ stateFile' = BrokenFile /\ step[a] = "writing" /\ step'[a] # "writing"
               /\ step'[a] \in AtWork => a = Panel
<1> DEFINE Effect ==
         /\ Busy(a) /\ raced' = raced
         /\ \A b \in Actor \ {a} : step'[b] = step[b]
         /\ \/ stateFile' = stateFile /\ step'[a] # "writing"
            \/ stateFile' = Empty /\ step'[a] = "writing"
            \/ stateFile' = WholeFile(copy[a]) /\ step[a] = "writing" /\ step'[a] # "writing"
            \/ /\ stateFile' = BrokenFile /\ step[a] = "writing" /\ step'[a] # "writing"
               /\ step'[a] \in AtWork => a = Panel
<1>0. step \in [Actor -> AtWork \union {"idle"}] /\ a \in Actor
  BY DEF ProfileTypeOK
<1>1. /\ EndActor(a) => step'[a] = "idle" /\ \A b \in Actor \ {a} : step'[b] = step[b]
      /\ \A n : GoTo(a, n) => step'[a] = n /\ \A b \in Actor \ {a} : step'[b] = step[b]
      /\ \A s, n : SaveAs(a, s, n) =>
           /\ step'[a] = "save" /\ raced' = raced /\ stateFile' = stateFile
           /\ \A b \in Actor \ {a} : step'[b] = step[b]
  BY <1>0 DEF EndActor, GoTo, SaveAs
<1>2. TruncateState(a) => Effect
  BY <1>0 DEF TruncateState, Busy, AtWork
<1>3. ASSUME WriteState(a) PROVE Effect
  <2>1. step[a] = "writing" /\ stateFile' = WholeFile(copy[a]) /\ raced' = raced
    BY <1>3 DEF WriteState
  <2>2. step'[a] # "writing" /\ \A b \in Actor \ {a} : step'[b] = step[b]
    <3>1. followup[a] # "writing"
      BY DEF CommandInv, PanelInv, Actor
    <3> QED BY <1>1, <1>3, <3>1 DEF WriteState
  <2> QED BY <2>1, <2>2 DEF Busy, AtWork
<1>4. ASSUME SaveFails(a) PROVE Effect
  <2>1. /\ step[a] \in {"save", "writing"} /\ raced' = raced
        /\ stateFile' = stateFile \/ (stateFile' = BrokenFile /\ step[a] = "writing")
    BY <1>4 DEF SaveFails
  <2>2. /\ \A b \in Actor \ {a} : step'[b] = step[b]
        /\ step'[a] = IF a = Panel THEN "open" ELSE "idle"
    BY <1>1, <1>4 DEF SaveFails
  <2> QED BY <2>1, <2>2, BusySteps DEF Busy, AtWork
<1>5. ActorKilled(a) => Effect
  BY <1>1 DEF ActorKilled
<1>6. a = Panel /\ (PanelSaves \/ PanelQuits) => Effect
  BY <1>1 DEF PanelSaves, PanelQuits, Busy, AtWork
<1>7. ASSUME Refuse(a), Busy(a) PROVE Effect
  BY <1>1, <1>7 DEF Refuse
<1>8. ASSUME NEW n, SaveAs(a, WithRun(a, MyPid(a)), n) \/ SaveAs(a, WithRun(a, NoPid), n)
                    \/ (\E p \in Pid : SaveAs(a, WithRun(a, p), n)), Busy(a)
      PROVE  Effect
  BY <1>1, <1>8
<1>9. ASSUME NEW n \in AtWork \ {"writing"}, GoTo(a, n), Busy(a), UNCHANGED <<stateFile, raced>>
      PROVE  Effect
  BY <1>1, <1>9
<1> HIDE DEF Effect
<1>10. ASSUME a \in ProfileCommand, CommandGoes(a) PROVE Effect
  <2>1. StartChecks(a) \/ StartSeesPort(a) \/ StartGivesUp(a) => Effect
    BY <1>9 DEF StartChecks, StartSeesPort, StartGivesUp, AtWork, Busy
  <2>2. StartRefused(a) \/ StartPortTaken(a) \/ StartCannotSpawn(a) => Effect
    BY <1>7 DEF StartRefused, StartPortTaken, StartCannotSpawn, AtWork, Busy
  <2>3. StartSpawns(a) => Effect
    BY <1>8 DEF StartSpawns, AtWork, Busy
  <2>4. StartReady(a) \/ StartUndoes(a) \/ StartCannotUndo(a) => Effect
    BY <1>8 DEF StartReady, StartUndoes, StartCannotUndo, FailedRun, AtWork, Busy
  <2>5. StopClears(a) \/ StopMismatch(a) \/ StopAnnounces(a) \/ StopKills(a) \/ StopCannotKill(a) => Effect
    BY <1>8 DEF StopClears, StopMismatch, StopAnnounces, StopKills, StopCannotKill, AtWork, Busy
  <2> QED BY <1>2, <1>3, <1>4, <1>10, <2>1, <2>2, <2>3, <2>4, <2>5 DEF CommandGoes
<1>11. Effect
  BY <1>2, <1>3, <1>4, <1>5, <1>6, <1>10
<1> QED BY <1>11 DEF Effect

LEMMA LoadEffect ==
  ASSUME ProfileTypeOK, NEW a \in Actor, NEW n \in {"double", "open"}, LoadState(a, n)
  PROVE  /\ step[a] = "idle" /\ step'[a] = n /\ \A b \in Actor \ {a} : step'[b] = step[b]
         /\ followup' = followup /\ UNCHANGED <<process, listener>>
         /\ ~raced' => ~raced /\ \A b \in Actor : ~Busy(b)
         /\ copy'[a] = stateFile.state /\ \A b \in Actor \ {a} : copy'[b] = copy[b]
         /\ stateFile'.state = stateFile.state
         /\ stateFile' = stateFile \/ stateFile'.kind = "whole"
         /\ a # Panel => stateFile'.kind # "broken"
         /\ ~broken' => ~broken
         /\ newest' = newest
<1>1. /\ step[a] = "idle" /\ step'[a] = n /\ \A b \in Actor \ {a} : step'[b] = step[b]
      /\ copy'[a] = stateFile.state /\ \A b \in Actor \ {a} : copy'[b] = copy[b]
  BY DEF LoadState, ProfileTypeOK
<1>2. followup' = followup /\ UNCHANGED <<process, listener>> /\ newest' = newest
  BY DEF LoadState, processVars
<1>3. ~broken' => ~broken
  BY DEF LoadState
<1>4. ~raced' => ~raced /\ \A b \in Actor : ~Busy(b)
  <2>1. ~raced' => ~raced /\ \A b \in Actor \ {a} : ~Busy(b)
    BY DEF LoadState
  <2> QED BY <1>1, <2>1, BusySteps DEF Busy
<1>5. /\ stateFile'.state = stateFile.state
      /\ stateFile' = stateFile \/ stateFile'.kind = "whole"
  <2>1. CASE stateFile.kind = "missing"
    <3>1. stateFile' = WholeFile(DefaultState)
      BY <2>1 DEF LoadState
    <3>2. stateFile.state = DefaultState
      BY <2>1 DEF ProfileTypeOK
    <3> QED BY <3>1, <3>2 DEF WholeFile
  <2>2. CASE stateFile.kind # "missing"
    BY <2>2 DEF LoadState
  <2> QED BY <2>1, <2>2
<1>6. a # Panel => stateFile'.kind # "broken"
  BY <1>5 DEF LoadState, Loads
<1> QED BY <1>1, <1>2, <1>3, <1>4, <1>5, <1>6

LEMMA SoloNext ==
  ASSUME ProfileTypeOK, PanelInv, \A k \in ProfileCommand : CommandInv(k), SoloInv,
         [ProfileNext]_profileVars
  PROVE  SoloInv'
<1>1. ASSUME NEW a \in Actor,
             \/ a = Panel /\ (PanelSaves \/ PanelQuits)
             \/ TruncateState(a) \/ WriteState(a) \/ SaveFails(a) \/ ActorKilled(a)
             \/ a \in ProfileCommand /\ CommandGoes(a)
      PROVE  SoloInv'
  <2>1. /\ Busy(a) /\ raced' = raced
        /\ \A b \in Actor \ {a} : step'[b] = step[b]
        /\ \/ stateFile' = stateFile /\ step'[a] # "writing"
           \/ stateFile' = Empty /\ step'[a] = "writing"
           \/ stateFile' = WholeFile(copy[a]) /\ step[a] = "writing" /\ step'[a] # "writing"
           \/ /\ stateFile' = BrokenFile /\ step[a] = "writing" /\ step'[a] # "writing"
              /\ step'[a] \in AtWork => a = Panel
    BY <1>1, BusyEffect
  <2> SUFFICES ASSUME ~raced'
               PROVE  /\ \A b, c \in Actor : Busy(b)' /\ Busy(c)' => b = c
                      /\ \A b \in Actor : step'[b] = "writing" => stateFile' = Empty
                      /\ \A k \in ProfileCommand : Busy(k)' => stateFile'.kind # "broken"
    BY DEF SoloInv
  <2>2. ~raced
    BY <2>1
  <2>3. \A b \in Actor : Busy(b)' => b = a
    BY <2>1, <2>2 DEF SoloInv, Busy
  <2>4. \A b \in Actor : step'[b] = "writing" => b = a
    BY <2>3 DEF Busy, AtWork
  <2>5. a \in ProfileCommand => stateFile.kind # "broken" /\ a # Panel
    BY <2>1, <2>2, ProfileAssumption DEF SoloInv
  <2>6. \A k \in ProfileCommand : k \in Actor
    BY DEF Actor
  <2> QED BY <2>1, <2>3, <2>4, <2>5, <2>6 DEF Busy, Empty, WholeFile
<1>2. ASSUME NEW a \in Actor, NEW n \in {"double", "open"}, LoadState(a, n) PROVE SoloInv'
  <2> SUFFICES ASSUME ~raced'
               PROVE  /\ \A b, c \in Actor : Busy(b)' /\ Busy(c)' => b = c
                      /\ \A b \in Actor : step'[b] = "writing" => stateFile' = Empty
                      /\ \A k \in ProfileCommand : Busy(k)' => stateFile'.kind # "broken"
    BY DEF SoloInv
  <2>1. \A b \in Actor : Busy(b)' => b = a
    BY <1>2, LoadEffect DEF Busy
  <2>2. step'[a] # "writing" /\ (a # Panel => stateFile'.kind # "broken")
    BY <1>2, LoadEffect
  <2>3. \A b \in Actor : step'[b] = "writing" => b = a
    BY <2>1 DEF Busy, AtWork
  <2>4. \A k \in ProfileCommand : k \in Actor /\ k # Panel
    BY ProfileAssumption DEF Actor
  <2> QED BY <2>1, <2>2, <2>3, <2>4
<1>3. ASSUME UNCHANGED <<stateFile, step, raced>> PROVE SoloInv'
  BY <1>3 DEF SoloInv, Busy
<1>4. Panel \in Actor /\ \A k \in ProfileCommand : k \in Actor
  BY DEF Actor
<1>5. PanelLoads => SoloInv'
  BY <1>2, <1>4 DEF PanelLoads
<1>6. \A k \in ProfileCommand : StartLoads(k) \/ StopLoads(k) => SoloInv'
  BY <1>2, <1>4 DEF StartLoads, StopLoads
<1>7. \A p \in Pid : ProcessDies(p) \/ Binds(p) \/ OtherStarts(p) => SoloInv'
  BY <1>3 DEF ProcessDies, Binds, OtherStarts
<1>8. UNCHANGED profileVars => SoloInv'
  BY <1>3 DEF profileVars
<1> QED BY <1>1, <1>4, <1>5, <1>6, <1>7, <1>8 DEF ProfileNext

-----------------------------------------------------------------------------
(* What the file records. *)

\* No server is left to run that was not before.
NoneLeft ==
  \A p \in Pid : process'[p].kind = "server" /\ process'[p].by = Panel =>
    process[p].kind = "server" /\ process[p].by = Panel /\ process'[p].profile = process[p].profile

\* The state s records every server that is left after the step.
RecordsNext(s) ==
  \A p \in Pid : process'[p].kind = "server" /\ process'[p].by = Panel =>
    s.run[process'[p].profile] = p

LEMMA RecordsKept == ASSUME NEW s, Records(s), NoneLeft PROVE RecordsNext(s)
BY DEF Records, RecordsNext, NoneLeft

LEMMA NoneLeftByDying ==
  ASSUME ProfileTypeOK, NEW p \in Pid, Alive(p), Dies(p) PROVE NoneLeft
BY DiesEffect DEF NoneLeft

LEMMA NoneLeftByEnding ==
  ASSUME ProfileTypeOK, NEW a \in Actor, EndActor(a),
         \A p \in Pid : process[p].by = a => a = Panel
  PROVE  NoneLeft
<1>1. process' = Reaped(a)
  BY DEF EndActor
<1>2. \A p \in Pid : process[p].kind = "zombie" => process[p].by # Panel
  BY ProcessFacts DEF ProfileTypeOK
<1> QED BY <1>1, <1>2, ReapEffect DEF NoneLeft

\* As long as one process works and none has failed, a step of the one at work
\* keeps the record, if it keeps that of its own copy.
LEMMA SoundStep ==
  ASSUME ProfileTypeOK, SoloInv, SoundInv, NEW a \in Actor, Busy(a),
         \A b \in Actor \ {a} : step'[b] = step[b],
         ~raced, ~broken,
         \A k \in ProfileCommand : k # a => ~Cleared(k)',
         (\A b \in Actor : step'[b] # "writing") =>
            /\ stateFile'.kind \in {"whole", "missing"}
            /\ RecordsNext(stateFile'.state)
            /\ step'[Panel] # "save" => stateFile'.state.settings = newest',
         Busy(a)' =>
            /\ step'[a] \notin {"save", "writing"} => copy'[a] = stateFile'.state
            /\ RecordsNext(copy'[a])
            /\ copy'[a].settings = newest',
         a \in ProfileCommand /\ Cleared(a)' =>
            \A p \in Pid : process'[p].kind = "server" /\ process'[p].by = Panel =>
              process'[p].profile # profile'[a]
  PROVE  SoundInv'
<1>1. \A b \in Actor : Busy(b)' => b = a
  BY DEF SoloInv, Busy
<1>2. NoneWrites' <=> \A b \in Actor : step'[b] # "writing"
  BY DEF NoneWrites
<1>3. NoneWrites' => /\ stateFile'.kind \in {"whole", "missing"}
                     /\ RecordsNext(stateFile'.state)
  BY <1>2
<1>4. NoneWrites' /\ step'[Panel] # "save" => stateFile'.state.settings = newest'
  BY <1>2
<1>5. \A b \in Actor : Busy(b)' =>
         /\ step'[b] \notin {"save", "writing"} => copy'[b] = stateFile'.state
         /\ RecordsNext(copy'[b])
         /\ copy'[b].settings = newest'
  BY <1>1
<1>6. \A k \in ProfileCommand : Cleared(k)' =>
         \A p \in Pid : process'[p].kind = "server" /\ process'[p].by = Panel =>
           process'[p].profile # profile'[k]
  OBVIOUS
<1> QED BY <1>3, <1>4, <1>5, <1>6 DEF SoundInv, Records, RecordsNext

\* A command that is not at work has cleared nothing.
LEMMA ClearedBusy ==
  ASSUME NEW k \in ProfileCommand, CommandInv(k), Cleared(k) PROVE Busy(k)
BY DEF CommandInv, Cleared, Busy, AtWork

\* The state in which one process works alone.
LEMMA SoloFacts ==
  ASSUME ProfileTypeOK, \A k \in ProfileCommand : CommandInv(k), PanelInv, SoloInv, SoundInv,
         NEW a \in Actor, Busy(a), ~raced, ~broken
  PROVE  /\ \A b \in Actor \ {a} : ~Busy(b)
         /\ \A k \in ProfileCommand : k # a => ~Cleared(k)
         /\ Records(copy[a]) /\ copy[a].settings = newest
         /\ step[a] # "writing" =>
              /\ NoneWrites /\ stateFile.kind \in {"whole", "missing"}
              /\ Records(stateFile.state)
              /\ step[a] # "save" => copy[a] = stateFile.state
              /\ ~(a = Panel /\ step[a] = "save") => stateFile.state.settings = newest
<1>1. \A b \in Actor \ {a} : ~Busy(b)
  BY DEF SoloInv
<1>2. \A k \in ProfileCommand : k # a => ~Cleared(k)
  BY <1>1, ClearedBusy DEF Actor
<1>3. \A b \in Actor \ {a} : step[b] # "writing" /\ step[b] # "save"
  BY <1>1 DEF Busy, AtWork
<1>4. step[a] # "writing" => NoneWrites
  BY <1>3 DEF NoneWrites
<1>5. ~(a = Panel /\ step[a] = "save") => step[Panel] # "save"
  BY <1>3 DEF Actor
<1> QED BY <1>1, <1>2, <1>4, <1>5 DEF SoundInv

\* So do the steps of the others that leave its state alone.
LEMMA ClearedFrame ==
  ASSUME NEW k \in ProfileCommand, ~Cleared(k), step'[k] = step[k], followup'[k] = followup[k],
         starts'[k] = starts[k]
  PROVE  ~Cleared(k)'
BY DEF Cleared

LEMMA SoundGoes ==
  ASSUME ProfileTypeOK, \A k \in ProfileCommand : CommandInv(k), PanelInv, SoloInv, SoundInv,
         NEW k \in ProfileCommand, ~raced, ~broken,
         StartChecks(k) \/ StartSeesPort(k) \/ StartGivesUp(k)
  PROVE  SoundInv'
<1>1. /\ step[k] \in {"double", "port", "wait"} /\ step'[k] \in {"port", "spawn", "undo"}
      /\ k \in Actor /\ k # Panel /\ \A b \in Actor \ {k} : step'[b] = step[b]
      /\ followup' = [followup EXCEPT ![k] = "idle"]
      /\ UNCHANGED <<stateFile, copy, process, newest, profile, starts>>
  BY ProfileAssumption
     DEF StartChecks, StartSeesPort, StartGivesUp, GoTo, processVars, ProfileTypeOK, Actor
<1>2. Busy(k) /\ step[k] # "writing" /\ step[k] # "save"
  BY <1>1 DEF Busy, AtWork
<1>3. /\ \A j \in ProfileCommand : j # k => ~Cleared(j)
      /\ Records(copy[k]) /\ copy[k].settings = newest
      /\ stateFile.kind \in {"whole", "missing"} /\ Records(stateFile.state)
      /\ copy[k] = stateFile.state /\ stateFile.state.settings = newest
  BY <1>1, <1>2, SoloFacts
<1>4. \A j \in ProfileCommand : j # k => ~Cleared(j)'
  <2> TAKE j \in ProfileCommand
  <2> HAVE j # k
  <2>1. j \in Actor \ {k} /\ followup'[j] = followup[j]
    BY <1>1 DEF ProfileTypeOK, Actor
  <2> QED BY <1>1, <1>3, <2>1, ClearedFrame
<1>5. NoneLeft
  BY <1>1 DEF NoneLeft
<1>6. RecordsNext(stateFile'.state) /\ RecordsNext(copy'[k])
  BY <1>1, <1>3, <1>5, RecordsKept
<1>7. \A p \in Pid : process[p].kind = "server" /\ process[p].by = Panel =>
        process[p].profile # profile[k]
  <2>1. CASE StartChecks(k)
    <3>1. ~Alive(MyPid(k))
      BY <2>1 DEF StartChecks
    <3> SUFFICES ASSUME NEW p \in Pid, process[p].kind = "server", process[p].by = Panel,
                        process[p].profile = profile[k]
                 PROVE  FALSE
      OBVIOUS
    <3>2. p = MyPid(k)
      BY <1>3 DEF Records, MyPid
    <3> QED BY <3>1, <3>2, ProfileAssumption DEF Alive
  <2>2. CASE ~StartChecks(k)
    <3>1. step[k] \in {"port", "wait"}
      BY <2>2 DEF StartSeesPort, StartGivesUp
    <3>2. Cleared(k)
      BY <3>1 DEF Cleared, CommandInv
    <3> QED BY <3>2 DEF SoundInv
  <2> QED BY <2>1, <2>2
<1> QED BY <1>1, <1>2, <1>3, <1>4, <1>6, <1>7, SoundStep

LEMMA SoundEnds ==
  ASSUME ProfileTypeOK, \A k \in ProfileCommand : CommandInv(k), PanelInv, SoloInv, SoundInv,
         NEW a \in Actor, EndActor(a), Busy(a), ~raced, ~broken, newest' = newest,
         \/ /\ stateFile' = stateFile /\ step[a] \in {"double", "port", "spawn", "open"}
         \/ /\ stateFile' = WholeFile(copy[a]) /\ step[a] = "writing"
  PROVE  SoundInv'
<1>1. /\ step'[a] = "idle" /\ \A b \in Actor \ {a} : step'[b] = step[b]
      /\ followup'[a] = "idle" /\ \A b \in Actor \ {a} : followup'[b] = followup[b]
      /\ \A k \in ProfileCommand : k # a => starts'[k] = starts[k]
      /\ a \in ProfileCommand => ~starts'[a]
  BY DEF EndActor, ProfileTypeOK
<1>2. /\ \A j \in ProfileCommand : j # a => ~Cleared(j)
      /\ Records(copy[a]) /\ copy[a].settings = newest
      /\ step[a] # "writing" =>
           /\ stateFile.kind \in {"whole", "missing"} /\ Records(stateFile.state)
           /\ step[a] # "save" => stateFile.state.settings = newest
  BY SoloFacts
<1>3. \A j \in ProfileCommand : ~Cleared(j)'
  <2> TAKE j \in ProfileCommand
  <2>1. j = a => ~Cleared(j)'
    BY <1>1 DEF Cleared
  <2>2. j # a => ~Cleared(j)'
    <3> HAVE j # a
    <3>1. j \in Actor \ {a}
      BY DEF Actor
    <3> QED BY <1>1, <1>2, <3>1, ClearedFrame
  <2> QED BY <2>1, <2>2
<1>4. ~Busy(a)'
  BY <1>1, BusySteps DEF Busy
<1>5. RecordsNext(stateFile'.state)
  <2>1. CASE \A p \in Pid : process[p].by = a => a = Panel
    <3>1. NoneLeft
      BY <2>1, NoneLeftByEnding
    <3>2. (stateFile'.state = stateFile.state /\ Records(stateFile.state)) \/ stateFile'.state = copy[a]
      BY <1>2 DEF WholeFile
    <3> QED BY <1>2, <3>1, <3>2, RecordsKept
  <2>2. CASE ~\A p \in Pid : process[p].by = a => a = Panel
    <3>1. PICK q \in Pid : process[q].by = a /\ a # Panel
      BY <2>2
    <3>2. a \in ProfileCommand
      BY <3>1 DEF Actor
    <3>3. Spawned(a) /\ \A p \in Pid : process[p].by = a => p = MyPid(a) /\ process[p].profile = profile[a]
      BY <3>1, <3>2 DEF CommandInv
    <3>4. stateFile'.state = copy[a]
      BY <3>3 DEF Spawned, WholeFile
    <3>5. process' = Reaped(a)
      BY DEF EndActor
    <3> SUFFICES ASSUME NEW p \in Pid, process'[p].kind = "server", process'[p].by = Panel
                 PROVE  copy[a].run[process'[p].profile] = p
      BY <3>4 DEF RecordsNext
    <3>6. CASE process[p].by = a
      <4>1. process[p].kind # "zombie"
        BY <3>5, <3>6, ReapEffect
      <4>2. process'[p].profile = process[p].profile
        BY <3>5, <3>6, <4>1, ReapEffect
      <4> QED BY <3>3, <3>6, <4>2 DEF MyPid
    <3>7. CASE process[p].by # a
      <4>1. process'[p] = process[p]
        BY <3>5, <3>7, ReapEffect
      <4> QED BY <1>2, <4>1 DEF Records
    <3> QED BY <3>6, <3>7
  <2> QED BY <2>1, <2>2
<1>6. stateFile'.kind \in {"whole", "missing"} /\ stateFile'.state.settings = newest
  BY <1>2 DEF WholeFile
<1> QED BY <1>1, <1>3, <1>4, <1>5, <1>6, SoundStep

\* What an actor is going to save records every server, and the settings.
LEMMA SoundSaves ==
  ASSUME ProfileTypeOK, \A k \in ProfileCommand : CommandInv(k), PanelInv, SoloInv, SoundInv,
         NEW a \in Actor, NEW s \in ProfileState, NEW n, SaveAs(a, s, n), Busy(a),
         step[a] \notin {"save", "writing"}, ~raced, ~broken, NoneLeft,
         RecordsNext(s), s.settings = newest', newest' = newest \/ a = Panel,
         a \in ProfileCommand /\ (starts[a] \/ n = "stopped") =>
           \A p \in Pid : process'[p].kind = "server" /\ process'[p].by = Panel =>
             process'[p].profile # profile[a]
  PROVE  SoundInv'
<1>1. /\ step'[a] = "save" /\ \A b \in Actor \ {a} : step'[b] = step[b]
      /\ followup'[a] = n /\ \A b \in Actor \ {a} : followup'[b] = followup[b]
      /\ copy'[a] = s /\ UNCHANGED <<stateFile, profile, starts>>
  BY DEF SaveAs, ProfileTypeOK
<1>2. /\ \A j \in ProfileCommand : j # a => ~Cleared(j)
      /\ stateFile.kind \in {"whole", "missing"} /\ Records(stateFile.state)
      /\ stateFile.state.settings = newest
  BY SoloFacts
<1>3. \A j \in ProfileCommand : j # a => ~Cleared(j)'
  <2> TAKE j \in ProfileCommand
  <2> HAVE j # a
  <2>1. j \in Actor \ {a}
    BY DEF Actor
  <2> QED BY <1>1, <1>2, <2>1, ClearedFrame
<1>4. RecordsNext(stateFile'.state)
  BY <1>1, <1>2, RecordsKept
<1>5. step'[Panel] # "save" => stateFile'.state.settings = newest'
  BY <1>1, <1>2
<1>6. a \in ProfileCommand /\ Cleared(a)' =>
        \A p \in Pid : process'[p].kind = "server" /\ process'[p].by = Panel =>
          process'[p].profile # profile'[a]
  BY <1>1 DEF Cleared
<1> QED BY <1>1, <1>2, <1>3, <1>4, <1>5, <1>6, SoundStep

\* The same for the changes that a command makes to its profile's run.
LEMMA SoundRuns ==
  ASSUME ProfileTypeOK, \A j \in ProfileCommand : CommandInv(j), PanelInv, SoloInv, SoundInv,
         NEW k \in ProfileCommand, NEW p \in Pid \union {NoPid}, NEW n, SaveAs(k, WithRun(k, p), n),
         step[k] \in AtWork \ {"save", "writing"}, ~raced, ~broken, NoneLeft, newest' = newest,
         starts[k] => step[k] \in {"spawn", "wait", "undo"},
         \/ /\ p = MyPid(k) /\ n # "stopped"
         \/ starts[k]
         \/ \A q \in Pid : process'[q].kind = "server" /\ process'[q].by = Panel =>
              process'[q].profile # profile[k]
  PROVE  SoundInv'
<1>1. k \in Actor /\ Busy(k) /\ profile[k] \in Profile
  BY DEF Actor, Busy, ProfileTypeOK
<1>2. Records(copy[k]) /\ copy[k].settings = newest
  BY <1>1, SoloFacts
<1> DEFINE s == WithRun(k, p)
<1>3. /\ s \in ProfileState /\ s.settings = copy[k].settings
      /\ \A q \in Profile : s.run[q] = IF q = profile[k] THEN p ELSE copy[k].run[q]
  BY RunSet
<1>4. SaveAs(k, s, n)
  OBVIOUS
<1> HIDE DEF s
<1>5. ASSUME starts[k] \/ n = "stopped"
      PROVE  \A q \in Pid : process'[q].kind = "server" /\ process'[q].by = Panel =>
               process'[q].profile # profile[k]
  <2>1. CASE starts[k]
    <3>1. Cleared(k)
      BY <2>1 DEF Cleared
    <3> QED BY <3>1 DEF SoundInv, NoneLeft
  <2>2. CASE ~starts[k]
    BY <1>5, <2>2
  <2> QED BY <2>1, <2>2
<1>6. RecordsNext(copy[k])
  BY <1>2, RecordsKept
<1>7. RecordsNext(s)
  <2> SUFFICES ASSUME NEW q \in Pid, process'[q].kind = "server", process'[q].by = Panel
               PROVE  s.run[process'[q].profile] = q
    BY DEF RecordsNext
  <2>1. process'[q].profile \in Profile
    <3>1. process[q].profile \in Profile /\ process'[q].profile = process[q].profile
      BY ProcessFacts DEF ProfileTypeOK, NoneLeft
    <3> QED BY <3>1
  <2>2. copy[k].run[process'[q].profile] = q
    BY <1>6 DEF RecordsNext
  <2>3. CASE process'[q].profile # profile[k]
    BY <1>3, <2>1, <2>2, <2>3
  <2>4. CASE process'[q].profile = profile[k]
    <3>1. p = MyPid(k)
      BY <1>5, <2>4
    <3> QED BY <1>3, <2>1, <2>2, <2>4, <3>1 DEF MyPid
  <2> QED BY <2>3, <2>4
<1> QED BY <1>1, <1>2, <1>3, <1>4, <1>5, <1>7, SoundSaves

LEMMA SoundTruncates ==
  ASSUME ProfileTypeOK, \A k \in ProfileCommand : CommandInv(k), PanelInv, SoloInv, SoundInv,
         NEW a \in Actor, TruncateState(a), ~raced, ~broken
  PROVE  SoundInv'
<1>1. /\ step[a] = "save" /\ step'[a] = "writing" /\ \A b \in Actor \ {a} : step'[b] = step[b]
      /\ UNCHANGED <<followup, copy, profile, starts, process, newest>>
  BY DEF TruncateState, ProfileTypeOK, processVars
<1>2. Busy(a)
  BY <1>1 DEF Busy, AtWork
<1>3. /\ \A j \in ProfileCommand : j # a => ~Cleared(j)
      /\ Records(copy[a]) /\ copy[a].settings = newest
  BY <1>2, SoloFacts
<1>4. \A j \in ProfileCommand : j # a => ~Cleared(j)'
  BY <1>1, <1>3, ClearedFrame DEF Actor
<1>5. RecordsNext(copy'[a])
  BY <1>1, <1>3, RecordsKept DEF NoneLeft
<1>6. a \in ProfileCommand /\ Cleared(a)' =>
        \A p \in Pid : process'[p].kind = "server" /\ process'[p].by = Panel =>
          process'[p].profile # profile'[a]
  <2>1. Cleared(a)' => Cleared(a)
    BY <1>1 DEF Cleared
  <2> QED BY <1>1, <2>1 DEF SoundInv
<1> QED BY <1>1, <1>2, <1>3, <1>4, <1>5, <1>6, SoundStep

LEMMA SoundWrites ==
  ASSUME ProfileTypeOK, \A k \in ProfileCommand : CommandInv(k), PanelInv, SoloInv, SoundInv,
         NEW a \in Actor, WriteState(a), ~raced, ~broken
  PROVE  SoundInv'
<1>1. step[a] = "writing" /\ stateFile' = WholeFile(copy[a]) /\ newest' = newest
  BY DEF WriteState
<1>2. Busy(a)
  BY <1>1 DEF Busy, AtWork
<1>3. CASE followup[a] \in Over
  BY <1>1, <1>2, <1>3, SoundEnds DEF WriteState
<1>4. CASE followup[a] \notin Over
  <2>1. GoTo(a, followup[a]) /\ UNCHANGED <<copy, processVars>>
    BY <1>4 DEF WriteState
  <2>2. followup[a] \in {"open", "wait", "kill"}
    BY <1>1, <1>4 DEF CommandInv, PanelInv, Actor, Over
  <2>3. /\ step'[a] \in {"open", "wait", "kill"} /\ \A b \in Actor \ {a} : step'[b] = step[b]
        /\ followup'[a] = "idle" /\ \A b \in Actor \ {a} : followup'[b] = followup[b]
        /\ UNCHANGED <<copy, profile, starts, process>>
    BY <2>1, <2>2 DEF GoTo, ProfileTypeOK, processVars
  <2>4. /\ \A j \in ProfileCommand : j # a => ~Cleared(j)
        /\ Records(copy[a]) /\ copy[a].settings = newest
    BY <1>2, SoloFacts
  <2>5. \A j \in ProfileCommand : j # a => ~Cleared(j)'
    BY <2>3, <2>4, ClearedFrame DEF Actor
  <2>6. RecordsNext(copy[a])
    BY <2>3, <2>4, RecordsKept DEF NoneLeft
  <2>7. a \in ProfileCommand /\ Cleared(a)' =>
          \A p \in Pid : process'[p].kind = "server" /\ process'[p].by = Panel =>
            process'[p].profile # profile'[a]
    <3>1. Cleared(a)' => Cleared(a)
      BY <1>1, <2>3 DEF Cleared
    <3> QED BY <2>3, <3>1 DEF SoundInv
  <2>8. /\ stateFile'.kind = "whole" /\ stateFile'.state = copy[a] /\ copy'[a] = copy[a]
        /\ newest' = newest
    BY <1>1, <2>3 DEF WholeFile
  <2> QED BY <1>2, <2>3, <2>4, <2>5, <2>6, <2>7, <2>8, SoundStep
<1> QED BY <1>3, <1>4

LEMMA SoundCommand ==
  ASSUME ProfileTypeOK, \A j \in ProfileCommand : CommandInv(j), PanelInv, SoloInv, SoundInv,
         NEW k \in ProfileCommand, CommandGoes(k), ~raced, ~broken, ~broken'
  PROVE  SoundInv'
<1>1. /\ MyPid(k) \in Pid \union {NoPid} /\ k \in Actor /\ k # Panel
  BY ProfileAssumption DEF MyPid, ProfileTypeOK, ProfileState, Actor
<1>2. UNCHANGED processVars => NoneLeft
  BY DEF processVars, NoneLeft
<1>3. ASSUME IF Alive(MyPid(k)) THEN Dies(MyPid(k)) ELSE UNCHANGED processVars
      PROVE  /\ NoneLeft
             /\ MyPid(k) \in Pid => process'[MyPid(k)].kind # "server"
  <2>1. CASE Alive(MyPid(k))
    <3>1. MyPid(k) \in Pid /\ Dies(MyPid(k))
      BY <1>1, <1>3, <2>1 DEF Alive
    <3>2. NoneLeft
      BY <2>1, <3>1, NoneLeftByDying
    <3>3. process'[MyPid(k)].kind \in {"free", "zombie"}
      BY <2>1, <3>1, DiesEffect
    <3> QED BY <3>2, <3>3
  <2>2. CASE ~Alive(MyPid(k))
    <3>1. UNCHANGED processVars
      BY <1>3, <2>2
    <3>2. MyPid(k) \in Pid => process[MyPid(k)].kind # "server"
      BY <2>2, ProfileAssumption DEF Alive
    <3> QED BY <1>2, <3>1, <3>2 DEF processVars
  <2> QED BY <2>1, <2>2
<1>4. ASSUME MyPid(k) \in Pid => process'[MyPid(k)].kind # "server", NoneLeft, step[k] \in AtWork
      PROVE  \A q \in Pid : process'[q].kind = "server" /\ process'[q].by = Panel =>
               process'[q].profile # profile[k]
  <2> SUFFICES ASSUME NEW q \in Pid, process'[q].kind = "server", process'[q].by = Panel,
                      process'[q].profile = profile[k]
               PROVE  FALSE
    OBVIOUS
  <2>1. process[q].kind = "server" /\ process[q].by = Panel /\ process[q].profile = profile[k]
    BY <1>4 DEF NoneLeft
  <2>2. Records(copy[k])
    BY <1>1, <1>4, SoloFacts DEF Busy
  <2>3. q = MyPid(k)
    BY <2>1, <2>2 DEF Records, MyPid
  <2> QED BY <1>4, <2>3
<1>5. CASE TruncateState(k) \/ WriteState(k)
  BY <1>1, <1>5, SoundTruncates, SoundWrites
<1>6. CASE SaveFails(k)
  BY <1>6 DEF SaveFails
<1>7. CASE StartChecks(k) \/ StartSeesPort(k) \/ StartGivesUp(k)
  BY <1>7, SoundGoes
<1>8. CASE StartRefused(k) \/ StartPortTaken(k) \/ StartCannotSpawn(k)
  <2>1. /\ EndActor(k) /\ newest' = newest /\ stateFile' = stateFile
        /\ step[k] \in {"double", "port", "spawn"}
    BY <1>8 DEF StartRefused, StartPortTaken, StartCannotSpawn, Refuse
  <2>2. Busy(k)
    BY <2>1 DEF Busy, AtWork
  <2> QED BY <1>1, <2>1, <2>2, SoundEnds
<1>9. CASE StartSpawns(k)
  <2>1. PICK p \in Pid : /\ process[p].kind = "free"
                         /\ process' = [process EXCEPT ![p] = ServerProcess(k, profile[k])]
                         /\ SaveAs(k, WithRun(k, p), "wait")
    BY <1>9 DEF StartSpawns
  <2>2. /\ process'[p].by = k /\ \A q \in Pid : q # p => process'[q] = process[q]
    <3>1. process[p].kind = "free" /\ process' = [process EXCEPT ![p] = ServerProcess(k, profile[k])]
      BY <2>1
    <3>2. process \in [Pid -> Process]
      BY DEF ProfileTypeOK
    <3> QED BY <3>1, <3>2 DEF ServerProcess
  <2>3. NoneLeft
    BY <1>1, <2>2 DEF NoneLeft
  <2>4. /\ step[k] = "spawn" /\ starts[k] /\ newest' = newest
    BY <1>9 DEF StartSpawns, CommandInv
  <2>5. SaveAs(k, WithRun(k, p), "wait") /\ step[k] \in AtWork \ {"save", "writing"}
    BY <2>1, <2>4 DEF AtWork
  <2> QED BY <2>3, <2>4, <2>5, SoundRuns
<1>10. CASE StartReady(k)
  <2>1. /\ SaveAs(k, WithRun(k, MyPid(k)), "started") /\ UNCHANGED processVars /\ newest' = newest
        /\ step[k] \in AtWork \ {"save", "writing"} /\ step[k] = "wait"
    BY <1>10 DEF StartReady, AtWork
  <2> QED BY <1>1, <1>2, <2>1, SoundRuns
<1>11. CASE StartUndoes(k) \/ StartCannotUndo(k)
  <2>1. /\ SaveAs(k, WithRun(k, MyPid(k)), "refused") /\ newest' = newest
        /\ step[k] \in AtWork \ {"save", "writing"} /\ step[k] = "undo"
    BY <1>11 DEF StartUndoes, StartCannotUndo, FailedRun, AtWork
  <2>2. NoneLeft
    BY <1>2, <1>3, <1>11 DEF StartUndoes, StartCannotUndo
  <2> QED BY <1>1, <2>1, <2>2, SoundRuns
<1>12. CASE StopClears(k)
  <2>1. /\ SaveAs(k, WithRun(k, NoPid), "stopped") /\ newest' = newest /\ UNCHANGED processVars
        /\ step[k] \in AtWork \ {"save", "writing"} /\ ~starts[k] /\ ~Alive(MyPid(k))
    BY <1>12 DEF StopClears, AtWork
  <2>2. MyPid(k) \in Pid => process'[MyPid(k)].kind # "server"
    BY <2>1, ProfileAssumption DEF Alive, processVars
  <2> QED BY <1>2, <1>4, <2>1, <2>2, SoundRuns
<1>13. CASE StopMismatch(k)
  <2>1. /\ SaveAs(k, WithRun(k, MyPid(k)), "refused") /\ newest' = newest /\ UNCHANGED processVars
        /\ step[k] \in AtWork \ {"save", "writing"} /\ ~starts[k]
    BY <1>13 DEF StopMismatch, AtWork
  <2> QED BY <1>1, <1>2, <2>1, SoundRuns
<1>14. CASE StopAnnounces(k)
  <2>1. /\ SaveAs(k, WithRun(k, MyPid(k)), "kill") /\ newest' = newest /\ UNCHANGED processVars
        /\ step[k] \in AtWork \ {"save", "writing"} /\ ~starts[k]
    BY <1>14 DEF StopAnnounces, AtWork
  <2> QED BY <1>1, <1>2, <2>1, SoundRuns
<1>15. CASE StopKills(k)
  <2>1. /\ SaveAs(k, WithRun(k, NoPid), "stopped") /\ newest' = newest
        /\ step[k] \in AtWork \ {"save", "writing"} /\ step[k] = "kill"
    BY <1>15 DEF StopKills, AtWork
  <2>2. NoneLeft /\ (MyPid(k) \in Pid => process'[MyPid(k)].kind # "server")
    BY <1>3, <1>15 DEF StopKills, KillWaits
  <2>3. ~starts[k]
    BY <2>1 DEF CommandInv, Kills
  <2>4. \A q \in Pid : process'[q].kind = "server" /\ process'[q].by = Panel =>
          process'[q].profile # profile[k]
    BY <1>4, <2>1, <2>2
  <2> QED BY <2>1, <2>2, <2>3, <2>4, SoundRuns
<1>16. CASE StopCannotKill(k)
  <2>1. /\ SaveAs(k, WithRun(k, MyPid(k)), "refused") /\ newest' = newest /\ UNCHANGED processVars
        /\ step[k] \in AtWork \ {"save", "writing"} /\ step[k] = "kill"
    BY <1>16 DEF StopCannotKill, AtWork
  <2>2. ~starts[k]
    BY <2>1 DEF CommandInv, Kills
  <2> QED BY <1>1, <1>2, <2>1, <2>2, SoundRuns
<1> QED BY <1>5, <1>6, <1>7, <1>8, <1>9, <1>10, <1>11, <1>12, <1>13, <1>14, <1>15, <1>16 DEF CommandGoes

LEMMA SoundLoads ==
  ASSUME ProfileTypeOK, \A j \in ProfileCommand : CommandInv(j), PanelInv, SoloInv, SoundInv,
         NEW a \in Actor, NEW n \in {"double", "open"}, LoadState(a, n),
         \A k \in ProfileCommand : k # a => starts'[k] = starts[k], ~raced', ~broken'
  PROVE  SoundInv'
<1>1. /\ step[a] = "idle" /\ step'[a] = n /\ \A b \in Actor \ {a} : step'[b] = step[b]
      /\ followup' = followup /\ UNCHANGED <<process, listener>>
      /\ ~raced /\ \A b \in Actor : ~Busy(b)
      /\ copy'[a] = stateFile.state /\ stateFile'.state = stateFile.state
      /\ stateFile' = stateFile \/ stateFile'.kind = "whole"
      /\ ~broken /\ newest' = newest
  BY LoadEffect
<1>2. \A b \in Actor : step[b] # "writing" /\ step[b] # "save"
  BY <1>1 DEF Busy, AtWork
<1>3. NoneWrites /\ step[Panel] # "save"
  BY <1>2 DEF NoneWrites, Actor
<1>4. /\ stateFile.kind \in {"whole", "missing"} /\ Records(stateFile.state)
      /\ stateFile.state.settings = newest
  BY <1>1, <1>3 DEF SoundInv
<1>5. \A b \in Actor : Busy(b)' => b = a
  BY <1>1 DEF Busy
<1>6. \A k \in ProfileCommand : ~Cleared(k)'
  <2> TAKE k \in ProfileCommand
  <2>1. k \in Actor /\ ~Cleared(k)
    BY <1>1, ClearedBusy DEF Actor
  <2>2. k # a => ~Cleared(k)'
    BY <1>1, <2>1, ClearedFrame
  <2>3. k = a => ~Cleared(k)'
    <3> HAVE k = a
    <3>1. followup[k] = "idle"
      BY <1>1 DEF CommandInv
    <3> QED BY <1>1, <3>1 DEF Cleared
  <2> QED BY <2>2, <2>3
<1>7. RecordsNext(stateFile'.state) /\ RecordsNext(copy'[a])
  BY <1>1, <1>4, RecordsKept DEF NoneLeft
<1>8. stateFile'.kind \in {"whole", "missing"} /\ copy'[a].settings = newest'
      /\ stateFile'.state.settings = newest' /\ copy'[a] = stateFile'.state
  BY <1>1, <1>4
<1> QED BY <1>5, <1>6, <1>7, <1>8 DEF SoundInv, Records, RecordsNext

LEMMA SoundOutside ==
  ASSUME ProfileTypeOK, SoundInv, ~raced, ~broken, NoneLeft,
         UNCHANGED <<stateFile, copy, step, followup, profile, starts, newest>>
  PROVE  SoundInv'
<1>1. \A s : Records(s) => RecordsNext(s)
  BY RecordsKept
<1>2. \A k \in ProfileCommand : Cleared(k)' =>
         \A p \in Pid : process'[p].kind = "server" /\ process'[p].by = Panel =>
           process'[p].profile # profile'[k]
  <2>1. \A k \in ProfileCommand : Cleared(k)' => Cleared(k)
    BY DEF Cleared
  <2> QED BY <2>1 DEF SoundInv, NoneLeft
<1>3. /\ NoneWrites' => NoneWrites
      /\ \A a \in Actor : Busy(a)' => Busy(a)
  BY DEF NoneWrites, Busy
<1> QED BY <1>1, <1>2, <1>3 DEF SoundInv, Records, RecordsNext

LEMMA SoundPanel ==
  ASSUME ProfileTypeOK, \A j \in ProfileCommand : CommandInv(j), PanelInv, SoloInv, SoundInv,
         PanelSaves, ~raced, ~broken
  PROVE  SoundInv'
<1>1. Panel \in Actor /\ Panel \notin ProfileCommand /\ step[Panel] = "open"
      /\ copy[Panel] \in ProfileState /\ copy[Panel].settings + 1 \in 0 .. MaxSettings
  BY ProfileAssumption DEF PanelSaves, Actor, ProfileTypeOK, ProfileState
<1>2. Busy(Panel)
  BY <1>1 DEF Busy, AtWork
<1>3. Records(copy[Panel])
  BY <1>1, <1>2, SoloFacts
<1>4. NoneLeft
  BY DEF PanelSaves, processVars, NoneLeft
<1> DEFINE s == [copy[Panel] EXCEPT !.settings = @ + 1]
<1>5. s \in ProfileState /\ s.run = copy[Panel].run /\ s.settings = copy[Panel].settings + 1
  BY <1>1 DEF ProfileState
<1>6. SaveAs(Panel, s, "open") /\ newest' = copy[Panel].settings + 1
  BY DEF PanelSaves
<1> HIDE DEF s
<1>7. RecordsNext(s)
  BY <1>3, <1>4, <1>5, RecordsKept DEF RecordsNext
<1> QED BY <1>1, <1>2, <1>4, <1>5, <1>6, <1>7, SoundSaves

LEMMA SoundNext ==
  ASSUME ProfileIInv, [ProfileNext]_profileVars
  PROVE  SoundInv'
<1> SUFFICES ASSUME ~raced', ~broken' PROVE SoundInv'
  BY DEF SoundInv
<1>1. ProfileTypeOK /\ (\A j \in ProfileCommand : CommandInv(j)) /\ PanelInv /\ SoloInv /\ SoundInv
  BY DEF ProfileIInv
<1>3. Panel \in Actor /\ \A k \in ProfileCommand : k \in Actor
  BY DEF Actor
<1>4. ASSUME NEW a \in Actor, NEW n \in {"double", "open"}, LoadState(a, n),
             \A k \in ProfileCommand : k # a => starts'[k] = starts[k]
      PROVE  SoundInv'
  BY <1>1, <1>4, SoundLoads
<1>5. CASE PanelLoads
  BY <1>3, <1>4, <1>5 DEF PanelLoads
<1>6. ASSUME NEW k \in ProfileCommand, StartLoads(k) \/ StopLoads(k) PROVE SoundInv'
  <2>1. LoadState(k, "double") /\ \A j \in ProfileCommand : j # k => starts'[j] = starts[j]
    BY <1>1, <1>6 DEF StartLoads, StopLoads, ProfileTypeOK
  <2> QED BY <1>3, <1>4, <2>1
<1>7. ASSUME NEW a \in Actor,
             \/ a = Panel /\ (PanelSaves \/ PanelQuits)
             \/ TruncateState(a) \/ WriteState(a)
             \/ a \in ProfileCommand /\ CommandGoes(a)
      PROVE  ~raced /\ Busy(a)
  <2>1. raced' = raced /\ Busy(a)
    BY <1>1, <1>7, BusyEffect
  <2> QED BY <2>1
<1>8. CASE PanelSaves
  <2>1. ~raced
    BY <1>3, <1>7, <1>8
  <2>2. ~broken
    BY <1>8 DEF PanelSaves, SaveAs
  <2> QED BY <1>1, <1>8, <2>1, <2>2, SoundPanel
<1>9. CASE PanelQuits
  <2>1. ~raced /\ Busy(Panel)
    BY <1>3, <1>7, <1>9
  <2>2. /\ ~broken /\ EndActor(Panel) /\ newest' = newest /\ stateFile' = stateFile
        /\ step[Panel] = "open"
    BY <1>9 DEF PanelQuits
  <2> QED BY <1>1, <1>3, <2>1, <2>2, SoundEnds
<1>10. ASSUME NEW a \in Actor, TruncateState(a) \/ WriteState(a) PROVE SoundInv'
  <2>1. ~raced
    BY <1>7, <1>10
  <2>2. ~broken
    BY <1>10 DEF TruncateState, WriteState
  <2> QED BY <1>1, <1>10, <2>1, <2>2, SoundTruncates, SoundWrites
<1>11. ASSUME NEW a \in Actor, SaveFails(a) \/ ActorKilled(a) PROVE FALSE
  BY <1>11 DEF SaveFails, ActorKilled
<1>12. ASSUME NEW k \in ProfileCommand, CommandGoes(k) PROVE SoundInv'
  <2>1. ~raced
    BY <1>3, <1>7, <1>12
  <2>2. ~broken
    <3>1. SaveFails(k) \/ broken' = broken
      BY <1>12
         DEF CommandGoes, TruncateState, WriteState, StartChecks, StartRefused, StartSeesPort,
             StartPortTaken, StartSpawns, StartCannotSpawn, StartReady, StartGivesUp,
             StartUndoes, StartCannotUndo, StopClears, StopMismatch, StopAnnounces, StopKills,
             StopCannotKill, Refuse, SaveAs
    <3> QED BY <1>3, <1>11, <3>1
  <2> QED BY <1>1, <1>12, <2>1, <2>2, SoundCommand
<1>13. ASSUME NEW p \in Pid, ProcessDies(p) \/ Binds(p) \/ OtherStarts(p) PROVE SoundInv'
  <2>1. ~raced /\ ~broken /\ UNCHANGED <<stateFile, copy, step, followup, profile, starts, newest>>
    BY <1>13 DEF ProcessDies, Binds, OtherStarts
  <2>2. NoneLeft
    <3>1. CASE ProcessDies(p)
      BY <1>1, <3>1, NoneLeftByDying DEF ProcessDies
    <3>2. CASE Binds(p)
      BY <3>2 DEF Binds, NoneLeft
    <3>3. CASE OtherStarts(p)
      <4>1. PICK kind \in {"other", "lookalike"} : process' = [process EXCEPT ![p] = NoServer(kind)]
        BY <3>3 DEF OtherStarts
      <4>2. process \in [Pid -> Process]
        BY <1>1 DEF ProfileTypeOK
      <4>3. process'[p].kind = kind /\ \A q \in Pid : q # p => process'[q] = process[q]
        BY <4>1, <4>2 DEF NoServer
      <4> QED BY <4>3 DEF NoneLeft
    <3> QED BY <1>13, <3>1, <3>2, <3>3
  <2> QED BY <1>1, <2>1, <2>2, SoundOutside
<1>14. CASE UNCHANGED profileVars
  <2>1. /\ ~raced /\ ~broken /\ UNCHANGED <<stateFile, copy, step, followup, profile, starts, newest>>
        /\ NoneLeft
    BY <1>14 DEF profileVars, processVars, NoneLeft
  <2> QED BY <1>1, <2>1, SoundOutside
<1> QED BY <1>3, <1>5, <1>6, <1>8, <1>9, <1>10, <1>11, <1>12, <1>13, <1>14 DEF ProfileNext

-----------------------------------------------------------------------------
(* The inductive invariant. *)

LEMMA ProfileInitInv == ProfileInit => ProfileIInv
<1> SUFFICES ASSUME ProfileInit PROVE ProfileIInv
  OBVIOUS
<1>1. ProfileTypeOK
  BY ProfileInitType
<1>2. \A a \in Actor : step[a] = "idle" /\ followup[a] = "idle" /\ ~Busy(a)
  BY BusySteps DEF ProfileInit, Busy
<1>3. /\ Panel \in Actor /\ \A k \in ProfileCommand : k \in Actor /\ k # Panel /\ ~starts[k]
      /\ \A p \in Pid : process[p].by = Panel /\ process[p].kind = "free"
  BY ProfileAssumption, ProcessFacts DEF Actor, ProfileInit
<1>4. \A k \in ProfileCommand : CommandInv(k)
  BY <1>2, <1>3 DEF CommandInv, Spawned, TrustsPort, Kills
<1>5. PanelInv /\ SoloInv
  BY <1>2, <1>3 DEF PanelInv, SoloInv
<1>6. stateFile.kind = "missing" /\ stateFile.state.settings = newest
  BY DEF ProfileInit, MissingFile, DefaultState
<1>7. SoundInv
  BY <1>2, <1>3, <1>6 DEF SoundInv, Records, Cleared
<1> QED BY <1>1, <1>4, <1>5, <1>7 DEF ProfileIInv

LEMMA ProfileNextInv == ProfileIInv /\ [ProfileNext]_profileVars => ProfileIInv'
<1> SUFFICES ASSUME ProfileIInv, [ProfileNext]_profileVars PROVE ProfileIInv'
  OBVIOUS
<1>1. ProfileTypeOK /\ (\A j \in ProfileCommand : CommandInv(j)) /\ PanelInv /\ SoloInv
  BY DEF ProfileIInv
<1>2. ProfileTypeOK' /\ PanelInv' /\ SoloInv' /\ SoundInv'
  BY <1>1, ProfileNextType, PanelNext, SoloNext, SoundNext
<1>3. \A k \in ProfileCommand : CommandInv(k)'
  BY <1>1, CommandNext
<1> QED BY <1>2, <1>3 DEF ProfileIInv

\* Whatever the panel, the commands and other programs do to the state file and the
\* processes: each command is where its own copy and process say, and as long as no
\* two are at work and none is killed or fails to save, the file says what runs.
THEOREM ProfileIInvCorrect == ProfileSpec => []ProfileIInv
<1>1. ProfileInit => ProfileIInv
  BY ProfileInitInv
<1>2. ProfileIInv /\ [ProfileNext]_profileVars => ProfileIInv'
  BY ProfileNextInv
<1> QED BY <1>1, <1>2, PTL DEF ProfileSpec

LEMMA SoundRecord == ProfileIInv => ServerRecorded /\ SettingsKept
<1> SUFFICES ASSUME ProfileIInv, ~raced, ~broken
             PROVE  /\ \A p \in Pid : process[p].kind = "server" /\ process[p].by = Panel =>
                         Effective.run[process[p].profile] = p
                    /\ Effective.settings = newest \/ step[Panel] = "save"
  BY DEF ServerRecorded, SettingsKept
<1>1. SoundInv
  BY DEF ProfileIInv
<1>2. CASE \E a \in Actor : step[a] = "writing"
  <2> DEFINE w == CHOOSE a \in Actor : step[a] = "writing"
  <2>1. w \in Actor /\ step[w] = "writing"
    BY <1>2
  <2>2. Effective = copy[w]
    BY <1>2 DEF Effective
  <2> HIDE DEF w
  <2>3. Records(copy[w]) /\ copy[w].settings = newest
    BY <1>1, <2>1 DEF SoundInv, Busy, AtWork
  <2> QED BY <2>2, <2>3 DEF Records
<1>3. CASE ~\E a \in Actor : step[a] = "writing"
  <2>1. Effective = stateFile.state
    BY <1>3 DEF Effective
  <2>2. Records(stateFile.state) /\ (step[Panel] # "save" => stateFile.state.settings = newest)
    BY <1>1, <1>3 DEF SoundInv, NoneWrites
  <2> QED BY <2>1, <2>2 DEF Records
<1> QED BY <1>2, <1>3

\* The state file keeps every server that runs and every setting the panel saved,
\* while commands of runtime_cli.rs and the panel take turns.
THEOREM ProfileCorrect == ProfileSpec => []ProfileInv
<1>1. ProfileIInv => ProfileInv
  BY SoundRecord DEF ProfileIInv, ProfileInv
<1> QED BY <1>1, ProfileIInvCorrect, PTL

-----------------------------------------------------------------------------
(* What the commands never do. *)

LEMMA ReadyIsServed ==
  ASSUME ProfileIInv, NEW k \in ProfileCommand, k \notin overtaken, StartReady(k)
  PROVE  listener = MyPid(k)
<1>1. CommandInv(k) /\ listener \in Pid
  BY DEF ProfileIInv, ProfileTypeOK, StartReady
<1>2. step[k] = "wait" /\ listener # NoPid
  BY DEF StartReady
<1>3. process[listener].by = k
  BY <1>1, <1>2 DEF CommandInv, TrustsPort
<1> QED BY <1>1, <1>3 DEF CommandInv

LEMMA ProcessKept ==
  ASSUME ProfileTypeOK, NEW p \in Pid, process[p].kind = "other",
         \/ UNCHANGED processVars
         \/ \E a \in Actor : EndActor(a)
         \/ \E q \in Pid \ {p} : Alive(q) /\ Dies(q)
         \/ \E q \in Pid : \E x : process[q].kind = "free" /\ process' = [process EXCEPT ![q] = x]
  PROVE  process'[p].kind = "other"
<1>1. CASE UNCHANGED processVars
  BY <1>1 DEF processVars
<1>2. CASE \E a \in Actor : EndActor(a)
  <2>1. PICK a \in Actor : process' = Reaped(a)
    BY <1>2 DEF EndActor
  <2> QED BY <2>1, ReapEffect
<1>3. CASE \E q \in Pid \ {p} : Alive(q) /\ Dies(q)
  BY <1>3, DiesEffect
<1>4. CASE \E q \in Pid : \E x : process[q].kind = "free" /\ process' = [process EXCEPT ![q] = x]
  BY <1>4 DEF ProfileTypeOK
<1> QED BY <1>1, <1>2, <1>3, <1>4

LEMMA OtherSpared ==
  ASSUME ProfileIInv, [ProfileNext]_profileVars, NEW p \in Pid, process[p].kind = "other",
         process'[p].kind # "other"
  PROVE  ProcessDies(p) \/ swapped # {}
<1>1. ProfileTypeOK /\ \A k \in ProfileCommand : CommandInv(k)
  BY DEF ProfileIInv
<1>2. /\ ~UNCHANGED processVars
      /\ \A a \in Actor : ~EndActor(a)
      /\ \A q \in Pid \ {p} : ~(Alive(q) /\ Dies(q))
      /\ \A q \in Pid : \A x : ~(process[q].kind = "free" /\ process' = [process EXCEPT ![q] = x])
  BY <1>1, ProcessKept
<1>3. Panel \in Actor /\ \A k \in ProfileCommand : k \in Actor
  BY DEF Actor
<1>4. ~PanelLoads /\ ~PanelSaves /\ ~PanelQuits
  BY <1>2, <1>3 DEF PanelLoads, PanelSaves, PanelQuits, LoadState
<1>5. \A a \in Actor : ~TruncateState(a) /\ ~WriteState(a) /\ ~SaveFails(a) /\ ~ActorKilled(a)
  BY <1>2 DEF TruncateState, WriteState, SaveFails, ActorKilled
<1>6. ASSUME NEW k \in ProfileCommand, StartLoads(k) \/ StopLoads(k) PROVE FALSE
  BY <1>2, <1>6 DEF StartLoads, StopLoads, LoadState
<1>7. ASSUME NEW k \in ProfileCommand, CommandGoes(k) PROVE swapped # {}
  <2>1. StartUndoes(k) \/ StopKills(k)
    BY <1>2, <1>3, <1>5, <1>7
       DEF CommandGoes, StartChecks, StartRefused, StartSeesPort, StartPortTaken, StartSpawns,
           StartCannotSpawn, StartReady, StartGivesUp, StartCannotUndo, StopClears,
           StopMismatch, StopAnnounces, StopCannotKill, Refuse
  <2>2. MyPid(k) \in Pid \union {NoPid}
    BY <1>1, <1>3 DEF MyPid, ProfileTypeOK, ProfileState
  <2>3. Alive(MyPid(k)) /\ Dies(MyPid(k))
    <3>1. IF Alive(MyPid(k)) THEN Dies(MyPid(k)) ELSE UNCHANGED processVars
      BY <2>1 DEF StartUndoes, StopKills, KillWaits
    <3> QED BY <1>2, <3>1
  <2>4. MyPid(k) = p
    BY <1>2, <2>2, <2>3 DEF Alive
  <2>5. ~StartUndoes(k)
    <3> SUFFICES ASSUME StartUndoes(k) PROVE FALSE
      OBVIOUS
    <3>1. Spawned(k)
      BY <1>1 DEF StartUndoes, CommandInv, Spawned
    <3>2. process[p].by = k /\ k # Panel
      BY <1>1, <2>4, <3>1, ProfileAssumption DEF CommandInv
    <3> QED BY <1>1, <3>2, ProcessFacts DEF ProfileTypeOK
  <2>6. Kills(k)
    BY <2>1, <2>5 DEF StopKills, Kills
  <2> QED BY <1>1, <2>4, <2>6 DEF CommandInv
<1>8. ASSUME NEW q \in Pid, ProcessDies(q) \/ Binds(q) \/ OtherStarts(q) PROVE ProcessDies(p)
  <2>1. ~OtherStarts(q)
    BY <1>2 DEF OtherStarts
  <2>2. ~Binds(q)
    BY DEF Binds
  <2>3. q = p
    BY <1>2, <1>8, <2>1, <2>2 DEF ProcessDies
  <2> QED BY <1>8, <2>1, <2>2, <2>3
<1>9. ~UNCHANGED profileVars
  BY <1>2 DEF profileVars
<1> QED BY <1>3, <1>4, <1>5, <1>6, <1>7, <1>8, <1>9 DEF ProfileNext

LEMMA StoppedIsCleared ==
  ASSUME ProfileIInv, NEW k \in ProfileCommand, followup[k] = "stopped", ~raced, ~broken,
         WriteState(k), NEW p \in Pid, process[p].kind = "server"
  PROVE  process[p].profile # profile[k]
<1>1. ProfileTypeOK /\ (\A j \in ProfileCommand : CommandInv(j)) /\ SoloInv /\ SoundInv
  BY DEF ProfileIInv
<1>2. process[p].by \in ProfileCommand \union {Panel}
  BY <1>1, ProcessFacts DEF ProfileTypeOK, Actor
<1>3. CASE process[p].by = Panel
  <2>1. Cleared(k)
    BY DEF Cleared
  <2> QED BY <1>1, <1>3, <2>1 DEF SoundInv
<1>4. CASE process[p].by \in ProfileCommand
  <2> DEFINE j == process[p].by
  <2>1. Spawned(j)
    BY <1>1, <1>4 DEF CommandInv
  <2>2. Busy(j) /\ Busy(k)
    BY <2>1 DEF Spawned, Busy, AtWork, WriteState
  <2>3. j = k
    BY <1>1, <1>4, <2>2 DEF SoloInv, Actor
  <2>4. ~starts[k]
    BY <1>1 DEF CommandInv
  <2> QED BY <2>1, <2>3, <2>4 DEF Spawned
<1> QED BY <1>2, <1>3, <1>4

LEMMA BrokenIsKept ==
  ASSUME ProfileIInv, [ProfileNext]_profileVars, stateFile.kind = "broken",
         stateFile' # stateFile, ~raced
  PROVE  step[Panel] = "save"
<1>1. ProfileTypeOK /\ SoloInv
  BY DEF ProfileIInv
<1>2. Panel \in Actor /\ \A k \in ProfileCommand : k \in Actor
  BY DEF Actor
<1>3. \A a \in Actor : step[a] # "writing"
  BY <1>1 DEF SoloInv, Empty
<1>4. \A k \in ProfileCommand : ~Busy(k)
  BY <1>1 DEF SoloInv
<1>5. ASSUME NEW a \in Actor, TruncateState(a) \/ WriteState(a) \/ SaveFails(a)
      PROVE  step[Panel] = "save"
  <2>1. TruncateState(a) /\ step[a] = "save"
    BY <1>3, <1>5 DEF TruncateState, WriteState, SaveFails
  <2>2. a = Panel
    BY <1>4, <2>1 DEF Actor, Busy, AtWork
  <2> QED BY <2>1, <2>2
<1>6. \A a \in Actor : \A n : ~LoadState(a, n)
  BY DEF LoadState
<1>7. ASSUME NEW k \in ProfileCommand, CommandGoes(k) PROVE step[Panel] = "save"
  BY <1>2, <1>5, <1>7
     DEF CommandGoes, StartChecks, StartRefused, StartSeesPort, StartPortTaken, StartSpawns,
         StartCannotSpawn, StartReady, StartGivesUp, StartUndoes, StartCannotUndo, StopClears,
         StopMismatch, StopAnnounces, StopKills, StopCannotKill, Refuse, SaveAs
<1>8. ~PanelLoads /\ ~PanelSaves /\ ~PanelQuits
  BY <1>2, <1>6 DEF PanelLoads, PanelSaves, PanelQuits, SaveAs
<1>9. \A k \in ProfileCommand : ~StartLoads(k) /\ ~StopLoads(k)
  BY <1>2, <1>6 DEF StartLoads, StopLoads
<1>10. /\ \A a \in Actor : ~ActorKilled(a)
       /\ \A p \in Pid : ~ProcessDies(p) /\ ~Binds(p) /\ ~OtherStarts(p)
       /\ ~UNCHANGED profileVars
  BY DEF ActorKilled, ProcessDies, Binds, OtherStarts, profileVars
<1> QED BY <1>2, <1>5, <1>7, <1>8, <1>9, <1>10 DEF ProfileNext

\* A start that reports ready serves, a stop leaves no server of its profile, no other
\* program is signalled and a file that does not parse is not written over, but for
\* the races that each property names.
THEOREM ProfileCommandsKeep == ProfileSpec => CommandsKeep
<1> DEFINE Served == \A k \in ProfileCommand :
                       ~raced /\ k \notin overtaken /\ StartReady(k) => listener = MyPid(k)
           Spared == \A p \in Pid :
                       process[p].kind = "other" /\ process'[p].kind # "other" =>
                         ProcessDies(p) \/ swapped # {}
           Emptied == \A k \in ProfileCommand :
                        followup[k] = "stopped" /\ ~raced /\ ~broken /\ WriteState(k) =>
                          \A p \in Pid :
                            process[p].kind = "server" => process[p].profile # profile[k]
           Unread == stateFile.kind = "broken" /\ stateFile' # stateFile /\ ~raced =>
                       step[Panel] = "save"
<1>1. ProfileIInv => Served
  BY ReadyIsServed
<1>2. ProfileIInv /\ [ProfileNext]_profileVars => Spared
  BY OtherSpared
<1>3. ProfileIInv => Emptied
  BY StoppedIsCleared
<1>4. ProfileIInv /\ [ProfileNext]_profileVars => Unread
  BY BrokenIsKept
<1>5. ProfileIInv /\ [ProfileNext]_profileVars =>
        [Served]_profileVars /\ [Spared]_profileVars /\ [Emptied]_profileVars /\ [Unread]_profileVars
  BY <1>1, <1>2, <1>3, <1>4
<1> HIDE DEF Served, Spared, Emptied, Unread
<1>6. ProfileSpec => [][Served]_profileVars /\ [][Spared]_profileVars
                     /\ [][Emptied]_profileVars /\ [][Unread]_profileVars
  BY <1>5, ProfileIInvCorrect, PTL DEF ProfileSpec
<1> QED BY <1>6 DEF CommandsKeep, StartedServes, OthersSpared, StopLeavesNone, BrokenKept,
                   Served, Spared, Emptied, Unread
===============================================================================
