---------------------------- MODULE RuntimeProfiles ----------------------------
(***************************************************************************)
(* The managed runtime profiles: `runtime start --detach` and              *)
(* `runtime stop` of lmml-tui (runtime_cli.rs), the detached llama-server  *)
(* processes that they start and signal by the recorded pid, and the one   *)
(* state file in which every lmml process keeps all of its state           *)
(* (lmml-state).  Each process reads the file once, works on its copy and  *)
(* writes the whole copy back, with a truncation before the content.  The  *)
(* panel does so for as long as it is open.  Other programs start and      *)
(* take pids and the port.                                                 *)
(***************************************************************************)
EXTENDS Naturals

CONSTANTS
  ProfileCommand, \* the commands at work at one time: each runs again and again
  Panel,          \* the terminal program
  Profile,        \* the names of the profiles; both listen on port 1200
  ModelOf,        \* the model configured for each profile
  Pid,            \* the process ids
  NoPid,          \* no process
  MaxSettings     \* how often the panel changes a setting (a bound)

ASSUME ProfileAssumption ==
  Panel \notin ProfileCommand /\ Profile # {} /\ NoPid \notin Pid /\ MaxSettings \in Nat

Actor == ProfileCommand \union {Panel}

VARIABLES
  stateFile, \* what is at the path of the state file
  copy,      \* for each actor, the state it works on
  step,      \* for each actor, what it does next
  followup,  \* for each actor, what it does after the save it is in
  profile,   \* for each command, its profile
  starts,    \* for each command, whether it is a start
  process,   \* for each pid, the process that has it
  listener,  \* the process that listens on the port
  newest,    \* the settings that the panel was last told to save
  raced,     \* whether two lmml processes were ever at work at once
  broken,    \* whether one was killed, or could not save, at any time
  swapped,   \* the commands whose pid was reused between its check and its signal
  overtaken  \* the starts whose port was taken after they saw it free

processVars == <<process, listener>>
profileVars == <<stateFile, copy, step, followup, profile, starts, processVars,
                 newest, raced, broken, swapped, overtaken>>

--------------------------------------------------------------------------------

\* Of a profile's run, its pid is what the commands go by; its status, health and
\* times are for the reader of `runtime status`.
ProfileState == [settings : 0 .. MaxSettings, run : [Profile -> Pid \union {NoPid}]]

\* AppState::default.
DefaultState == [settings |-> 0, run |-> [q \in Profile |-> NoPid]]

\* A truncated file parses as the default state, a broken one does not parse.
WholeFile(s) == [kind |-> "whole", state |-> s]
Empty == [kind |-> "empty", state |-> DefaultState]
BrokenFile == [kind |-> "broken", state |-> DefaultState]
MissingFile == [kind |-> "missing", state |-> DefaultState]

AtWork == {"double", "port", "spawn", "wait", "undo", "kill", "save", "writing", "open"}
Over == {"idle", "started", "stopped", "refused"}

\* Who runs under a pid: a server that a start made, a program of another kind,
\* or one whose command line holds the name of the binary.  A server is the
\* child of its command for as long as that runs.
ServerProcess(k, q) == [kind |-> "server", by |-> k, profile |-> q]
NoServer(kind) == [kind |-> kind, by |-> Panel, profile |-> CHOOSE q \in Profile : TRUE]
Process ==
  [kind : {"server"}, by : Actor, profile : Profile]
    \union [kind : {"zombie"}, by : ProfileCommand, profile : Profile]
    \union {NoServer(kind) : kind \in {"free", "other", "lookalike"}}
FreePid == NoServer("free")

\* The type invariant; only live processes listen.
ProfileTypeOK ==
  /\ stateFile \in [kind : {"whole", "empty", "broken", "missing"}, state : ProfileState]
  /\ stateFile.kind # "whole" => stateFile.state = DefaultState
  /\ copy \in [Actor -> ProfileState]
  /\ step \in [Actor -> AtWork \union {"idle"}]
  /\ followup \in [Actor -> AtWork \union Over]
  /\ profile \in [ProfileCommand -> Profile]
  /\ starts \in [ProfileCommand -> BOOLEAN]
  /\ process \in [Pid -> Process]
  /\ listener \in Pid \union {NoPid}
  /\ listener # NoPid => process[listener].kind \in {"server", "other", "lookalike"}
  /\ newest \in 0 .. MaxSettings
  /\ raced \in BOOLEAN /\ broken \in BOOLEAN 
  /\ swapped \subseteq ProfileCommand /\ overtaken \subseteq ProfileCommand

ProfileInit ==
  /\ stateFile = MissingFile
  /\ copy = [a \in Actor |-> DefaultState]
  /\ step = [a \in Actor |-> "idle"]
  /\ followup = [a \in Actor |-> "idle"]
  /\ profile = [k \in ProfileCommand |-> CHOOSE q \in Profile : TRUE]
  /\ starts = [k \in ProfileCommand |-> FALSE]
  /\ process = [p \in Pid |-> FreePid]
  /\ listener = NoPid
  /\ newest = 0
  /\ raced = FALSE /\ broken = FALSE /\ swapped = {} /\ overtaken = {}

--------------------------------------------------------------------------------
(* Reading and writing the state file. *)

Busy(a) == step[a] \in AtWork

\* The processes after actor a has ended: its dead children are reaped, its
\* servers are nobody's children.
Reaped(a) ==
  [p \in Pid |->
     IF process[p].by # a THEN process[p]
     ELSE IF process[p].kind = "zombie" THEN FreePid
     ELSE [process[p] EXCEPT !.by = Panel]]

\* Actor a goes on to n; what it knew is gone when it is over.
GoTo(a, n) ==
  /\ step' = [step EXCEPT ![a] = n]
  /\ followup' = [followup EXCEPT ![a] = "idle"]
  /\ UNCHANGED <<profile, starts, swapped, overtaken>>

EndActor(a) ==
  /\ step' = [step EXCEPT ![a] = "idle"]
  /\ followup' = [followup EXCEPT ![a] = "idle"]
  /\ copy' = [copy EXCEPT ![a] = DefaultState]
  /\ process' = Reaped(a)
  /\ swapped' = swapped \ {a}
  /\ overtaken' = overtaken \ {a}
  /\ profile' = [k \in ProfileCommand |->
                   IF k = a THEN CHOOSE q \in Profile : TRUE ELSE profile[k]]
  /\ starts' = [k \in ProfileCommand |-> k # a /\ starts[k]]
  /\ UNCHANGED listener

\* AppState::load fails on a file that does not parse; the panel falls back to
\* the default state.
Loads(a) == a = Panel \/ stateFile.kind # "broken"

\* AppState::load: a missing file is created with the default state; a command
\* that cannot load ends.
LoadState(a, first) ==
  /\ step[a] = "idle"
  /\ Loads(a)
  /\ raced' = (raced \/ \E b \in Actor \ {a} : Busy(b))
  /\ step' = [step EXCEPT ![a] = first]
  /\ copy' = [copy EXCEPT ![a] = stateFile.state]
  /\ stateFile' = IF stateFile.kind = "missing" THEN WholeFile(DefaultState) ELSE stateFile
  /\ UNCHANGED <<followup, processVars, newest, broken, swapped, overtaken>>

\* The copy of a is changed to s and saved; then comes n.
SaveAs(a, s, n) ==
  /\ copy' = [copy EXCEPT ![a] = s]
  /\ step' = [step EXCEPT ![a] = "save"]
  /\ followup' = [followup EXCEPT ![a] = n]
  /\ UNCHANGED <<stateFile, profile, starts, raced, broken, swapped, overtaken>>

\* save_to_path: fs::write truncates the file ...
TruncateState(a) ==
  /\ step[a] = "save"
  /\ stateFile' = Empty
  /\ step' = [step EXCEPT ![a] = "writing"]
  /\ UNCHANGED <<copy, followup, profile, starts, processVars, newest, raced,
                 broken, swapped, overtaken>>

\* ... and writes the content.
WriteState(a) ==
  /\ step[a] = "writing"
  /\ stateFile' = WholeFile(copy[a])
  /\ IF followup[a] \in Over
     THEN EndActor(a)
     ELSE GoTo(a, followup[a]) /\ UNCHANGED <<copy, processVars>>
  /\ UNCHANGED <<newest, raced, broken>>

\* The disk is full or the path cannot be written: a command returns at once,
\* whatever it has started; the panel shows it and goes on.
SaveFails(a) ==
  /\ step[a] \in {"save", "writing"}
  /\ IF step[a] = "save" THEN UNCHANGED stateFile ELSE stateFile' = BrokenFile
  /\ IF a = Panel
     THEN GoTo(a, "open") /\ UNCHANGED <<copy, processVars>>
     ELSE EndActor(a)
  /\ broken' = TRUE
  /\ UNCHANGED <<newest, raced>>

\* An lmml process is killed; its detached server is not.
ActorKilled(a) ==
  /\ Busy(a)
  /\ EndActor(a)
  /\ broken' = TRUE
  /\ UNCHANGED <<stateFile, newest, raced>>

--------------------------------------------------------------------------------
(* The processes. *)

MyPid(k) == copy[k].run[profile[k]]

\* pid_is_alive; a zombie is not.
Alive(p) == p # NoPid /\ process[p].kind \in {"server", "other", "lookalike"}

\* pid_looks_like_llama_server: ps shows a command line with the binary's name.
LooksLikeServer(p) == process[p].kind \in {"server", "lookalike"}

\* The process of p ends; a child of a command that is still at work stays as a
\* zombie.
Vacated(p) ==
  IF process[p].kind = "server" /\ process[p].by # Panel
  THEN [process[p] EXCEPT !.kind = "zombie"]
  ELSE FreePid

Dies(p) ==
  /\ process' = [process EXCEPT ![p] = Vacated(p)]
  /\ listener' = IF listener = p THEN NoPid ELSE listener

ProcessDies(p) ==
  /\ Alive(p)
  /\ Dies(p)
  /\ UNCHANGED <<stateFile, copy, step, followup, profile, starts, newest, raced,
                 broken, swapped, overtaken>>

\* A llama-server that cannot bind the port exits; ProcessDies is that.
Binds(p) ==
  /\ Alive(p)
  /\ listener = NoPid
  /\ listener' = p
  /\ overtaken' = overtaken \union
       {k \in ProfileCommand : /\ step[k] \in {"spawn", "wait"} \/ followup[k] = "wait"
                              /\ process[p].by # k}
  /\ UNCHANGED <<stateFile, copy, step, followup, profile, starts, process, newest,
                 raced, broken, swapped>>

\* Another program gets a pid.
OtherStarts(p) ==
  /\ process[p].kind = "free"
  /\ \E kind \in {"other", "lookalike"} :
       process' = [process EXCEPT ![p] = NoServer(kind)]
  /\ swapped' = swapped \union
       {k \in ProfileCommand : (followup[k] = "kill" \/ step[k] = "kill") /\ MyPid(k) = p}
  /\ UNCHANGED <<stateFile, copy, step, followup, profile, starts, listener, newest,
                 raced, broken, overtaken>>

--------------------------------------------------------------------------------
(* runtime start --detach *)

\* Mutant: the rest of the state is taken from the defaults.
WithRunFromDefault(k, p) == [DefaultState EXCEPT !.run[profile[k]] = p]

\* update_runtime_starting, _ready, _failed: the run of the command's profile.
WithRun(k, p) == [copy[k] EXCEPT !.run[profile[k]] = p]

Refuse(k) ==
  /\ EndActor(k)
  /\ UNCHANGED <<stateFile, newest, raced, broken>>

StartLoads(k) ==
  /\ LoadState(k, "double")
  /\ \E q \in Profile : profile' = [profile EXCEPT ![k] = q]
  /\ starts' = [starts EXCEPT ![k] = TRUE]

\* The profile has a model and there is a binary for it, or the command ends
\* here; then prevent_double_start.
StartChecks(k) ==
  /\ starts[k]
  /\ step[k] = "double"
  /\ ~Alive(MyPid(k))
  /\ GoTo(k, "port")
  /\ UNCHANGED <<stateFile, copy, processVars, newest, raced, broken>>

StartRefused(k) == starts[k] /\ step[k] = "double" /\ Refuse(k)

\* check_port_free: it binds the port for a moment.
PortIsFree == listener = NoPid

StartSeesPort(k) ==
  /\ step[k] = "port"
  /\ PortIsFree
  /\ GoTo(k, "spawn")
  /\ UNCHANGED <<stateFile, copy, processVars, newest, raced, broken>>

StartPortTaken(k) == step[k] = "port" /\ Refuse(k)

\* The capabilities are probed, the process is spawned in a session of its own,
\* and recorded.
StartSpawns(k) ==
  /\ step[k] = "spawn"
  /\ \E p \in Pid :
       /\ process[p].kind = "free"
       /\ process' = [process EXCEPT ![p] = ServerProcess(k, profile[k])]
       /\ SaveAs(k, WithRun(k, p), "wait")
  /\ UNCHANGED <<listener, newest>>

StartCannotSpawn(k) == step[k] = "spawn" /\ Refuse(k)

\* verify_served_model and verify_context_capacity ask whoever listens.
Verified(k) ==
  \/ process[listener].kind # "server"
  \/ ModelOf[process[listener].profile] = ModelOf[profile[k]]

\* wait_for_ready got its answer, the model and its context are right.
StartReady(k) ==
  /\ step[k] = "wait"
  /\ listener # NoPid
  /\ Verified(k)
  /\ SaveAs(k, WithRun(k, MyPid(k)), "started")
  /\ UNCHANGED <<processVars, newest>>

\* It timed out, or another server answered.
StartGivesUp(k) ==
  /\ step[k] = "wait"
  /\ GoTo(k, "undo")
  /\ UNCHANGED <<stateFile, copy, processVars, newest, raced, broken>>

\* update_runtime_failed leaves the pid.
FailedRun(k) == WithRun(k, MyPid(k))

\* terminate_pid: SIGTERM to the group, SIGKILL five seconds later, and five
\* more for it to be gone; whoever has the pid.
StartUndoes(k) ==
  /\ step[k] = "undo"
  /\ IF Alive(MyPid(k)) THEN Dies(MyPid(k)) ELSE UNCHANGED processVars
  /\ SaveAs(k, FailedRun(k), "refused")
  /\ UNCHANGED newest

\* The signal is not permitted, or the process stays.
StartCannotUndo(k) ==
  /\ step[k] = "undo"
  /\ Alive(MyPid(k))
  /\ SaveAs(k, FailedRun(k), "refused")
  /\ UNCHANGED <<processVars, newest>>

--------------------------------------------------------------------------------
(* runtime stop *)

StopLoads(k) ==
  /\ LoadState(k, "double")
  /\ \E q \in Profile : profile' = [profile EXCEPT ![k] = q]
  /\ UNCHANGED starts

\* There is no pid, or no process of that pid: what is left is cleared.
StopClears(k) ==
  /\ ~starts[k]
  /\ step[k] = "double"
  /\ ~Alive(MyPid(k))
  /\ SaveAs(k, WithRun(k, NoPid), "stopped")
  /\ UNCHANGED <<processVars, newest>>

\* Mutant: whoever has the pid is signalled.
RecognisedAlways(k) == TRUE

Recognised(k) == LooksLikeServer(MyPid(k))

\* The pid belongs to another program by now: it stays in the record.
StopMismatch(k) ==
  /\ ~starts[k]
  /\ step[k] = "double"
  /\ Alive(MyPid(k))
  /\ ~Recognised(k)
  /\ SaveAs(k, WithRun(k, MyPid(k)), "refused")
  /\ UNCHANGED <<processVars, newest>>

StopAnnounces(k) ==
  /\ ~starts[k]
  /\ step[k] = "double"
  /\ Alive(MyPid(k))
  /\ Recognised(k)
  /\ SaveAs(k, WithRun(k, MyPid(k)), "kill")
  /\ UNCHANGED <<processVars, newest>>

\* The process is gone when terminate_pid returns.
KillWaits(k) == IF Alive(MyPid(k)) THEN Dies(MyPid(k)) ELSE UNCHANGED processVars

StopKills(k) ==
  /\ step[k] = "kill"
  /\ KillWaits(k)
  /\ SaveAs(k, WithRun(k, NoPid), "stopped")
  /\ UNCHANGED newest

StopCannotKill(k) ==
  /\ step[k] = "kill"
  /\ Alive(MyPid(k))
  /\ SaveAs(k, WithRun(k, MyPid(k)), "refused")
  /\ UNCHANGED <<processVars, newest>>

--------------------------------------------------------------------------------
(* The panel *)

PanelLoads == LoadState(Panel, "open") /\ UNCHANGED <<profile, starts>>

\* save_state_after, and every other save of the panel.
PanelSaves ==
  /\ step[Panel] = "open"
  /\ copy[Panel].settings < MaxSettings
  /\ SaveAs(Panel, [copy[Panel] EXCEPT !.settings = @ + 1], "open")
  /\ newest' = copy[Panel].settings + 1
  /\ UNCHANGED processVars

PanelQuits ==
  /\ step[Panel] = "open"
  /\ EndActor(Panel)
  /\ UNCHANGED <<stateFile, newest, raced, broken>>

--------------------------------------------------------------------------------

\* The steps of a command, each of which ends by itself.
CommandGoes(k) ==
  \/ TruncateState(k)
  \/ WriteState(k)
  \/ SaveFails(k)
  \/ StartChecks(k)
  \/ StartRefused(k)
  \/ StartSeesPort(k)
  \/ StartPortTaken(k)
  \/ StartSpawns(k)
  \/ StartCannotSpawn(k)
  \/ StartReady(k)
  \/ StartGivesUp(k)
  \/ StartUndoes(k)
  \/ StartCannotUndo(k)
  \/ StopClears(k)
  \/ StopMismatch(k)
  \/ StopAnnounces(k)
  \/ StopKills(k)
  \/ StopCannotKill(k)

ProfileNext ==
  \/ PanelLoads
  \/ PanelSaves
  \/ PanelQuits
  \/ TruncateState(Panel) \/ WriteState(Panel) \/ SaveFails(Panel)
  \/ \E k \in ProfileCommand : StartLoads(k) \/ StopLoads(k) \/ CommandGoes(k)
  \/ \E a \in Actor : ActorKilled(a)
  \/ \E p \in Pid : ProcessDies(p) \/ Binds(p) \/ OtherStarts(p)

ProfileSpec == ProfileInit /\ [][ProfileNext]_profileVars

--------------------------------------------------------------------------------
(* Properties. *)

\* What the file says, or will say when the write in progress is over.
Effective ==
  IF \E a \in Actor : step[a] = "writing"
  THEN copy[CHOOSE a \in Actor : step[a] = "writing"]
  ELSE stateFile.state

\* When a start reports that its profile is ready, the process whose pid it
\* recorded is the one that answered, unless another process took the port
\* after it was seen free or another lmml process was at work.
StartedServes ==
  [][\A k \in ProfileCommand :
       ~raced /\ k \notin overtaken /\ StartReady(k) => listener = MyPid(k)]_profileVars

\* No command signals a program that is no llama-server, however often pids are
\* reused, unless one was reused between the look at it and the signal.
OthersSpared ==
  [][\A p \in Pid :
       process[p].kind = "other" /\ process'[p].kind # "other" =>
         ProcessDies(p) \/ swapped # {}]_profileVars

\* As long as one lmml process works at a time and none is killed or fails to
\* save, every live server of a command that is over is in the record, also
\* those of a failed start that could not be ended.
ServerRecorded ==
  ~raced /\ ~broken =>
    \A p \in Pid :
      process[p].kind = "server" /\ process[p].by = Panel =>
        Effective.run[process[p].profile] = p

\* Then a stop that reports success leaves no server of its profile.
StopLeavesNone ==
  [][\A k \in ProfileCommand :
       followup[k] = "stopped" /\ ~raced /\ ~broken /\ WriteState(k) =>
         \A p \in Pid :
           process[p].kind = "server" => process[p].profile # profile[k]]_profileVars

\* And the settings that the panel saved are there after every command.
SettingsKept ==
  ~raced /\ ~broken => Effective.settings = newest \/ step[Panel] = "save"

\* A state file that does not parse is not written over by a command that is
\* alone; the panel replaces it with its first save.
BrokenKept ==
  [][stateFile.kind = "broken" /\ stateFile' # stateFile /\ ~raced =>
       step[Panel] = "save"]_profileVars

(* Every server that runs is recorded, and the settings are those meant. *)
ProfileInv == ProfileTypeOK /\ ServerRecorded /\ SettingsKept

(* What the commands may never do. *)
CommandsKeep == StartedServes /\ OthersSpared /\ StopLeavesNone /\ BrokenKept

================================================================================
