--------------------------- MODULE ServerSession ---------------------------
(***************************************************************************)
(* The managed llama-server of the terminal program: the event loop of     *)
(* lmml-tui (event_loop.rs, app.rs) and the start, monitor, stop and drop  *)
(* of lmml-server (lib.rs).                                                *)
(*                                                                         *)
(* One task, the loop, owns a bounded channel's receiver and the slot that *)
(* holds the server handle.  Each start runs in a task of its own; once a  *)
(* start succeeds, a monitor shares the child process with the handle      *)
(* behind a lock and a forwarder turns status changes into events.  Every  *)
(* task sends to the channel the loop reads, and the loop itself sends to  *)
(* it too.  A section that holds the child lock across no await is one     *)
(* step; its overlap with the try_lock of Drop is the outcome `missed`.    *)
(***************************************************************************)
EXTENDS Naturals, Sequences, FiniteSets

CONSTANTS Start,        \* the starts an operator may ask for
          Serves,       \* the model each start loads
          Capacity,     \* room of the application channel (256)
          MaxLines,     \* log lines each server writes (a bound)
          Enforced,     \* approval enforcement: the child is the approved-runtime command
          NoStart       \* no start

ASSUME SessionAssumption ==
    /\ NoStart \notin Start
    /\ Capacity \in Nat \ {0}
    /\ MaxLines \in Nat
    /\ Enforced \in BOOLEAN
    /\ DOMAIN Serves = Start

VARIABLES
    panel,      \* App::server_status as the operator sees it
    modal,      \* whether the swap confirmation is open
    quit,       \* App::should_quit
    at,         \* where the loop is
    after,      \* what the loop does when the stop it awaits, or the send, is over
    held,       \* the start whose handle the loop has taken to stop it
    slot,       \* EventLoop::server_handle
    queue,      \* the application channel
    task,       \* where the task of each start is
    proc,       \* the process of each start
    child,      \* whether the shared Option<Child> holds the process
    watch,      \* the value of the status watch of each start
    unseen,     \* whether the forwarder has yet to see that value
    forward,    \* the forwarder of each start: off, watching, or the status it sends
    monitor,    \* the runtime monitor of each start
    lines,      \* log lines a server, or its monitor, has yet to write
    missed      \* whether Drop found the child lock taken

loopVars == <<panel, modal, quit, at, after, held, slot>>
serverVars == <<task, proc, child, watch, unseen, forward, monitor, lines, missed>>
vars == <<loopVars, queue, serverVars>>

Status == {"Stopped", "Starting", "Ready", "Failed"}
Key == {"Toggle", "Swap", "Yes", "No", "Quit"}

KeyEvent(k) == [kind |-> "Key", key |-> k]
Note == [kind |-> "Note"]           \* logs and capabilities: shown, nothing else
StatusEvent(x) == [kind |-> "Status", status |-> x]
Started(s, ok) == [kind |-> "Started", start |-> s, ok |-> ok]
Event == [kind : {"Key"}, key : Key] \union [kind : {"Status"}, status : Status]
            \union [kind : {"Started"}, start : Start, ok : BOOLEAN]
            \union {Note, Started(NoStart, FALSE)}

Room == Len(queue) < Capacity

\* send(e).await completes.
Push(e) == Room /\ queue' = Append(queue, e)

NextStep == [do : {"nothing", "quit"}] \union [do : {"launch"}, start : Start]
                \union [do : {"send"}, event : Event]
Nothing == [do |-> "nothing"]
Launch(s) == [do |-> "launch", start |-> s]
Send(e) == [do |-> "send", event |-> e]

\* A ServerHandle of s exists somewhere: its inner state is not dropped yet.
Queued(s) == \E i \in 1..Len(queue) : queue[i] = Started(s, TRUE)
Handled(s) == slot = s \/ held = s \/ task[s] = "Returning" \/ Queued(s)

\* status_tx.receiver_count() of s.
Receivers(s) == Handled(s) \/ forward[s] # "Off"

\* A process that is bound to the server's port.
Bound(s) == proc[s] = "Up"
PortFree == \A s \in Start : ~Bound(s)

NewStart == {s \in Start : task[s] = "None"}

\* status_tx.send(x): the watch keeps the last value only.
Publish(s, x) ==
    /\ watch' = [watch EXCEPT ![s] = x]
    /\ unseen' = [unseen EXCEPT ![s] = forward'[s] # "Off"]

Init ==
    /\ panel = "Stopped" /\ modal = FALSE /\ quit = FALSE
    /\ at = "Ticking" /\ after = Nothing /\ held = NoStart /\ slot = NoStart
    /\ queue = <<>>
    /\ task = [s \in Start |-> "None"]
    /\ proc = [s \in Start |-> "None"]
    /\ child = [s \in Start |-> FALSE]
    /\ watch = [s \in Start |-> "Starting"]
    /\ unseen = [s \in Start |-> FALSE]
    /\ forward = [s \in Start |-> "Off"]
    /\ monitor = [s \in Start |-> "Off"]
    /\ lines = [s \in Start |-> MaxLines]
    /\ missed = [s \in Start |-> FALSE]

-----------------------------------------------------------------------------
(* Drop for ServerInner: kill the child unless the lock cannot be had.     *)

\* Mutant: without the Drop a child outlives its last handle.
DropHandlesOnly(S, M) == M = {} /\ UNCHANGED <<proc, missed>>

\* The handles in S are dropped; those in M find the child lock taken.
DropHandles(S, M) ==
    LET killed == {s \in S \ M : child[s]}
    IN  /\ M \subseteq {s \in S : monitor[s] \in {"On", "Reporting"}}
        /\ {s \in S : monitor[s] = "Reporting"} \subseteq M
        /\ proc' = [s \in Start |-> IF s \in killed THEN "Gone" ELSE proc[s]]
        /\ missed' = [s \in Start |-> IF s \in M THEN TRUE ELSE missed[s]]

DropSome(S) == \E M \in SUBSET S : DropHandles(S, M)

\* The handle in the slot is replaced by the one of s, or by none.
Replace(s) ==
    /\ slot' = s
    /\ IF slot \in Start \ {s} THEN DropSome({slot}) ELSE UNCHANGED <<proc, missed>>

-----------------------------------------------------------------------------
(* The loop: a tick reads at most one key, then drains the channel.        *)

\* poll_terminal: a key that finds the channel full is lost.
Tick ==
    /\ at = "Ticking"
    /\ at' = "Draining"
    /\ \/ UNCHANGED queue
       \/ \E k \in Key : Push(KeyEvent(k))
    /\ UNCHANGED <<panel, modal, quit, after, held, slot, serverVars>>

\* drain_events finds the channel empty; run looks at should_quit.
Drained ==
    /\ at = "Draining" /\ queue = <<>>
    /\ at' = IF quit THEN "Leaving" ELSE "Ticking"
    /\ UNCHANGED <<panel, modal, quit, after, held, slot, queue, serverVars>>

Receive(e) == at = "Draining" /\ queue # <<>> /\ e = Head(queue) /\ queue' = Tail(queue)

\* Log lines and capabilities change nothing the session depends on.
HandleNote ==
    /\ Receive(Note)
    /\ UNCHANGED <<loopVars, serverVars>>

HandleStatus(x) ==
    /\ Receive(StatusEvent(x))
    /\ panel' = x
    /\ IF x = "Stopped" THEN Replace(NoStart) ELSE UNCHANGED <<slot, proc, missed>>
    /\ UNCHANGED <<modal, quit, at, after, held,
                   task, child, watch, unseen, forward, monitor, lines>>

HandleStarted(s, ok) ==
    /\ Receive(Started(s, ok))
    /\ Replace(IF ok THEN s ELSE NoStart)
    /\ panel' = IF ok THEN watch[s] ELSE "Failed"
    /\ UNCHANGED <<modal, quit, at, after, held,
                   task, child, watch, unseen, forward, monitor, lines>>

\* resolve_model_runtime, or the lookup of the approved bundle, may fail.
\* When every start is used up (a bound), it does.
Resolved == {Launch(s) : s \in NewStart} \union {Send(Started(NoStart, FALSE))}

\* StartServer: no server is touched.
KeyStart ==
    /\ Receive(KeyEvent("Toggle")) /\ ~modal /\ panel \in {"Stopped", "Failed"}
    /\ panel' = "Starting"
    /\ at' = "Doing"
    /\ \E then \in Resolved : after' = then
    /\ UNCHANGED <<modal, quit, held, slot, serverVars>>

\* The loop takes the handle out of the slot and awaits stop(), then goes on.
StopThen(then) ==
    /\ slot' = NoStart
    /\ held' = slot
    /\ after' = then
    /\ at' = IF slot = NoStart THEN "Doing" ELSE "Stopping"

KeyStop ==
    /\ Receive(KeyEvent("Toggle")) /\ ~modal /\ panel \in {"Starting", "Ready"}
    /\ panel' = "Stopped"
    /\ StopThen(Send(StatusEvent("Stopped")))
    /\ UNCHANGED <<modal, quit, serverVars>>

KeySwap ==
    /\ Receive(KeyEvent("Swap")) /\ ~modal
    /\ modal' = (panel \in {"Starting", "Ready"})
    /\ UNCHANGED <<panel, quit, at, after, held, slot, serverVars>>

\* ConfirmModelSwap: the panel keeps showing what it showed.
KeyConfirm ==
    /\ Receive(KeyEvent("Yes")) /\ modal
    /\ modal' = FALSE
    /\ \E then \in Resolved :
          IF then.do = "launch" THEN StopThen(then)
          ELSE at' = "Doing" /\ after' = then /\ UNCHANGED <<held, slot>>
    /\ UNCHANGED <<panel, quit, serverVars>>

KeyCancel ==
    /\ Receive(KeyEvent("No")) /\ modal
    /\ modal' = FALSE
    /\ UNCHANGED <<panel, quit, at, after, held, slot, serverVars>>

KeyQuit ==
    /\ Receive(KeyEvent("Quit"))
    /\ StopThen([do |-> "quit"])
    /\ UNCHANGED <<panel, modal, quit, serverVars>>

\* A key that means nothing where it is pressed.
KeyIgnored ==
    /\ \E k \in Key :
          /\ Receive(KeyEvent(k))
          /\ IF modal THEN k \in {"Toggle", "Swap"} ELSE k \in {"Yes", "No"}
    /\ UNCHANGED <<loopVars, serverVars>>

-----------------------------------------------------------------------------
(* What a key set off: stop_child of the handle the loop took, then the    *)
(* send, the launch or the exit.                                           *)

\* child.lock().await.take(): the monitor may hold the lock for a while.
StopTakes ==
    /\ at = "Stopping" /\ monitor[held] # "Reporting"
    /\ at' = "Reaping"
    /\ UNCHANGED <<panel, modal, quit, after, held, slot, queue,
                   task, proc, watch, unseen, forward, monitor, lines, missed>>
    /\ child' = [child EXCEPT ![held] = FALSE]

\* Mutant: a process that does not end on SIGTERM is left alone.
StopReapsTerminated ==
    /\ at = "Reaping"
    /\ at' = "Doing"
    /\ held' = NoStart
    /\ UNCHANGED <<panel, modal, quit, after, slot, queue,
                   task, proc, child, forward, monitor, lines, missed>>
    /\ Publish(held, "Stopped")

\* The process ends on SIGTERM or is killed; the handle is dropped.  That a kill of an
\* own child or the wait for it fails is left out.
StopReaps ==
    /\ at = "Reaping"
    /\ at' = "Doing"
    /\ proc' = [proc EXCEPT ![held] = "Gone"]
    /\ held' = NoStart
    /\ UNCHANGED <<panel, modal, quit, after, slot, queue,
                   task, child, forward, monitor, lines, missed>>
    /\ Publish(held, "Stopped")

\* app_tx.send(..).await by the only task that empties the channel.
LoopSends ==
    /\ at = "Doing" /\ after.do = "send"
    /\ Push(after.event)
    /\ at' = "Draining" /\ after' = Nothing
    /\ UNCHANGED <<panel, modal, quit, held, slot, serverVars>>

LoopLaunches ==
    /\ at = "Doing" /\ after.do = "launch"
    /\ task' = [task EXCEPT ![after.start] = IF Enforced THEN "Spawning" ELSE "Probing"]
    /\ at' = "Draining" /\ after' = Nothing
    /\ UNCHANGED <<panel, modal, quit, held, slot, queue,
                   proc, child, watch, unseen, forward, monitor, lines, missed>>

LoopQuits ==
    /\ at = "Doing" /\ after.do = "quit"
    /\ quit' = TRUE
    /\ at' = "Draining" /\ after' = Nothing
    /\ UNCHANGED <<panel, modal, held, slot, queue, serverVars>>

\* run returns: the loop, its channel and every task are dropped.
Leave ==
    /\ at = "Leaving"
    /\ at' = "Exited"
    /\ queue' = <<>> /\ slot' = NoStart
    /\ DropSome({s \in Start : Handled(s)})
    /\ task' = [s \in Start |-> "Done"]
    /\ forward' = [s \in Start |-> "Off"]
    /\ monitor' = [s \in Start |-> "Off"]
    /\ UNCHANGED <<panel, modal, quit, after, held, child, watch, unseen, lines>>

-----------------------------------------------------------------------------
(* The task of a start: spawn_server_start and start_with_timeout_and_env, *)
(* or spawn_approved_bundle_start when approvals are enforced.             *)

Goto(s, from, to) == task[s] = from /\ task' = [task EXCEPT ![s] = to]

\* LlamaBinaryCapabilities::probe; its outcome is sent to the application.
TaskProbes(s) ==
    /\ Push(Note)
    /\ \E to \in {"Checking", "Failing"} : Goto(s, "Probing", to)
    /\ UNCHANGED <<loopVars, proc, child, watch, unseen, forward, monitor, lines, missed>>

\* check_port_free looks at the port before anything is spawned on it.
TaskChecksPort(s) ==
    /\ Goto(s, "Checking", IF PortFree THEN "Spawning" ELSE "Failing")
    /\ UNCHANGED <<loopVars, queue, proc, child, watch, unseen, forward, monitor, lines, missed>>

TaskSpawns(s) ==
    /\ \/ Goto(s, "Spawning", "Waiting") /\ proc' = [proc EXCEPT ![s] = "Booting"]
       \/ Goto(s, "Spawning", "Failing") /\ UNCHANGED proc
    /\ UNCHANGED <<loopVars, queue, child, watch, unseen, forward, monitor, lines, missed>>

\* wait_for_ready is content with whoever answers on the port.
TaskSeesReady(s) ==
    /\ ~PortFree
    /\ Goto(s, "Waiting", IF Enforced THEN "Verified" ELSE "Verifying")
    /\ UNCHANGED <<loopVars, queue, proc, child, watch, unseen, forward, monitor, lines, missed>>

TaskTimesOut(s) ==
    /\ Goto(s, "Waiting", "Cleaning")
    /\ UNCHANGED <<loopVars, queue, proc, child, watch, unseen, forward, monitor, lines, missed>>

\* verify_served_model and verify_context_capacity ask the port, and may fail.
TaskVerifies(s) ==
    /\ \/ /\ \E u \in Start : Bound(u) /\ Serves[u] = Serves[s]
          /\ Goto(s, "Verifying", "Verified")
       \/ Goto(s, "Verifying", "Cleaning")
    /\ UNCHANGED <<loopVars, queue, proc, child, watch, unseen, forward, monitor, lines, missed>>

\* The handle is made.  Only a direct start gets a forwarder, which has yet
\* to see Ready; an adopted child has none.
TaskAdopts(s) ==
    /\ Goto(s, "Verified", "Returning")
    /\ child' = [child EXCEPT ![s] = TRUE]
    /\ monitor' = [monitor EXCEPT ![s] = "On"]
    /\ forward' = [forward EXCEPT ![s] = IF Enforced THEN "Off" ELSE "Watching"]
    /\ Publish(s, "Ready")
    /\ UNCHANGED <<loopVars, queue, proc, lines, missed>>

\* stop_child, or child.kill(), of a start that failed.
TaskCleans(s) ==
    /\ Goto(s, "Cleaning", "Failing")
    /\ proc' = [proc EXCEPT ![s] = "Gone"]
    /\ UNCHANGED <<loopVars, queue, child, watch, unseen, forward, monitor, lines, missed>>

\* Mutant: a start that failed says nothing.
TaskReturnsSuccess(s) ==
    /\ Push(Started(s, TRUE)) /\ Goto(s, "Returning", "Done")
    /\ UNCHANGED <<loopVars, proc, child, watch, unseen, forward, monitor, lines, missed>>

TaskReturns(s) ==
    /\ \/ Push(Started(s, TRUE)) /\ Goto(s, "Returning", "Done")
       \/ Push(Started(s, FALSE)) /\ Goto(s, "Failing", "Done")
    /\ UNCHANGED <<loopVars, proc, child, watch, unseen, forward, monitor, lines, missed>>

TaskStep(s) ==
    \/ TaskProbes(s) \/ TaskChecksPort(s) \/ TaskSpawns(s) \/ TaskVerifies(s)
    \/ TaskAdopts(s) \/ TaskCleans(s) \/ TaskReturns(s)

-----------------------------------------------------------------------------
(* The processes.                                                          *)

\* A process that finds the port taken gives up.
ProcBinds(s) ==
    /\ proc[s] = "Booting"
    /\ proc' = [proc EXCEPT ![s] = IF PortFree THEN "Up" ELSE "Gone"]
    /\ UNCHANGED <<loopVars, queue, task, child, watch, unseen, forward, monitor, lines, missed>>

ProcCrashes(s) ==
    /\ proc[s] \in {"Booting", "Up"}
    /\ proc' = [proc EXCEPT ![s] = "Gone"]
    /\ UNCHANGED <<loopVars, queue, task, child, watch, unseen, forward, monitor, lines, missed>>

\* A line goes through the log channel and its forwarder to the loop.
LogLine(s) ==
    /\ at # "Exited" /\ proc[s] # "None" /\ lines[s] > 0
    /\ Push(Note)
    /\ lines' = [lines EXCEPT ![s] = @ - 1]
    /\ UNCHANGED <<loopVars, task, proc, child, watch, unseen, forward, monitor, missed>>

-----------------------------------------------------------------------------
(* spawn_runtime_monitor and the forwarder of spawn_server_start.          *)

\* The monitor ends when nobody watches the status or the child was taken;
\* when the process is gone it keeps the child lock to report that.
MonitorLooks(s) ==
    /\ monitor[s] = "On"
    /\ \/ ~Receivers(s) \/ ~child[s] \/ proc[s] = "Gone"
    /\ monitor' = [monitor EXCEPT ![s] =
                      IF Receivers(s) /\ child[s] THEN "Reporting" ELSE "Off"]
    /\ UNCHANGED <<loopVars, queue, task, proc, child, watch, unseen, forward, lines, missed>>

\* The send to the log channel, with the lock held, takes as long as the
\* channel is full; then the child is dropped and the status is Failed.
MonitorReports(s) ==
    /\ monitor[s] = "Reporting"
    /\ monitor' = [monitor EXCEPT ![s] = "Off"]
    /\ child' = [child EXCEPT ![s] = FALSE]
    /\ UNCHANGED <<loopVars, queue, task, proc, forward, lines, missed>>
    /\ Publish(s, "Failed")

\* try_wait fails: the monitor gives up, the child stays where it is.
MonitorFails(s) ==
    /\ monitor[s] = "On" /\ Receivers(s) /\ child[s]
    /\ monitor' = [monitor EXCEPT ![s] = "Off"]
    /\ UNCHANGED <<loopVars, queue, task, proc, child, forward, lines, missed>>
    /\ Publish(s, "Failed")

ForwarderSees(s) ==
    /\ forward[s] = "Watching" /\ unseen[s]
    /\ forward' = [forward EXCEPT ![s] = watch[s]]
    /\ unseen' = [unseen EXCEPT ![s] = FALSE]
    /\ UNCHANGED <<loopVars, queue, task, proc, child, watch, monitor, lines, missed>>

\* Mutant: the forwarder ends after the first status.
ForwarderSendsOnce(s) ==
    /\ forward[s] \in Status
    /\ Push(StatusEvent(forward[s]))
    /\ forward' = [forward EXCEPT ![s] = "Off"]
    /\ UNCHANGED <<loopVars, task, proc, child, watch, unseen, monitor, lines, missed>>

ForwarderSends(s) ==
    /\ forward[s] \in Status
    /\ Push(StatusEvent(forward[s]))
    /\ forward' = [forward EXCEPT ![s] = IF @ = "Stopped" THEN "Off" ELSE "Watching"]
    /\ UNCHANGED <<loopVars, task, proc, child, watch, unseen, monitor, lines, missed>>

\* changed() fails once every sender of the status is dropped.
ForwarderEnds(s) ==
    /\ forward[s] = "Watching" /\ ~unseen[s] /\ ~Handled(s) /\ monitor[s] = "Off"
    /\ forward' = [forward EXCEPT ![s] = "Off"]
    /\ UNCHANGED <<loopVars, queue, task, proc, child, watch, unseen, monitor, lines, missed>>

-----------------------------------------------------------------------------
HandleEvent ==
    \/ HandleNote
    \/ \E x \in Status : HandleStatus(x)
    \/ \E s \in Start \union {NoStart}, ok \in BOOLEAN : HandleStarted(s, ok)
    \/ KeyStart \/ KeyStop \/ KeySwap \/ KeyConfirm \/ KeyCancel \/ KeyQuit \/ KeyIgnored

LoopStep ==
    \/ Tick \/ Drained \/ HandleEvent
    \/ StopTakes \/ StopReaps \/ LoopSends \/ LoopLaunches \/ LoopQuits \/ Leave

WatcherStep(s) ==
    \/ MonitorLooks(s) \/ MonitorFails(s) \/ MonitorReports(s)
    \/ ForwarderSees(s) \/ ForwarderSends(s) \/ ForwarderEnds(s)

Next ==
    \/ LoopStep
    \/ \E s \in Start :
          \/ TaskStep(s) \/ TaskSeesReady(s) \/ TaskTimesOut(s)
          \/ ProcBinds(s) \/ ProcCrashes(s) \/ LogLine(s)
          \/ WatcherStep(s)

Spec == Init /\ [][Next]_vars

\* The tasks of the program run.  A wait for readiness ends, at the latest
\* by its timeout.  Senders to a channel are served in the order they came,
\* so one that waits gets its turn when room comes up again and again.
Fairness ==
    /\ WF_vars(LoopStep)
    /\ \A s \in Start :
          /\ SF_vars(TaskStep(s))
          /\ WF_vars(TaskSeesReady(s) \/ TaskTimesOut(s))
          /\ WF_vars(MonitorLooks(s))
          /\ SF_vars(Room /\ MonitorReports(s))
          /\ WF_vars(ForwarderSees(s))
          /\ SF_vars(ForwarderSends(s))

FairSpec == Spec /\ Fairness

-----------------------------------------------------------------------------
(* Properties                                                              *)

\* Every variable has its type; the channel never holds more than its capacity.
TypeOK ==
    /\ panel \in Status /\ modal \in BOOLEAN /\ quit \in BOOLEAN
    /\ at \in {"Ticking", "Draining", "Doing", "Stopping", "Reaping", "Leaving", "Exited"}
    /\ after \in NextStep
    /\ {held, slot} \subseteq Start \union {NoStart}
    /\ queue \in Seq(Event) /\ Len(queue) <= Capacity
    /\ task \in [Start -> {"None", "Probing", "Checking", "Spawning", "Waiting", "Verifying",
                           "Verified", "Cleaning", "Failing", "Returning", "Done"}]
    /\ proc \in [Start -> {"None", "Booting", "Up", "Gone"}]
    /\ {child, unseen, missed} \subseteq [Start -> BOOLEAN]
    /\ watch \in [Start -> Status]
    /\ forward \in [Start -> {"Off", "Watching"} \union Status]
    /\ monitor \in [Start -> {"Off", "On", "Reporting"}]
    /\ lines \in [Start -> 0..MaxLines]

\* A process of s exists.
Running(s) == proc[s] \in {"Booting", "Up"}

\* The task of s holds the process itself.
InTask(s) == task[s] \in {"Waiting", "Verifying", "Verified", "Cleaning"}

\* While the program runs, every server process has somebody who can still
\* stop it - the task that starts it, or a handle in the slot, on its way in
\* the channel or being stopped - unless Drop could not get the child lock.
ChildOwned ==
    at # "Exited" => \A s \in Start : Running(s) => InTask(s) \/ Handled(s) \/ missed[s]

\* Nothing is under way that will still change the panel or a process.
Settled ==
    /\ at = "Ticking" /\ queue = <<>>
    /\ \A s \in Start :
          /\ task[s] \in {"None", "Done"}
          /\ forward[s] \in {"Off", "Watching"} /\ ~unseen[s]
          /\ monitor[s] # "Reporting"

\* Once everything has settled, a panel that says Stopped is right: no
\* server runs behind it (but for one that Drop could not kill).
StoppedIsStopped ==
    Settled /\ panel = "Stopped" => \A s \in Start : Running(s) => missed[s]

\* The loop waits for room in the channel that only it makes room in, or for
\* a monitor that waits for that room.
Jammed == ~Room /\ (at = "Stopping" \/ (at = "Doing" /\ after.do = "send"))

Serving == slot # NoStart /\ Running(slot)

\* A failure becomes visible: a panel that says Ready while the program holds
\* no running server does not go on saying so (unless a Drop could not kill).
FailureShown ==
    (panel = "Ready" /\ ~Serving /\ ~\E s \in Start : missed[s])
        ~> (panel # "Ready" \/ Serving \/ Jammed \/ at = "Exited")

\* Every start is answered, whatever becomes of its process.
StartAnswered ==
    \A s \in Start : task[s] \notin {"None", "Done"} ~> (task[s] = "Done" \/ Jammed)

=============================================================================
