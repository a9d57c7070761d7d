----------------------------- MODULE ConfigHandoff -----------------------------
(***************************************************************************)
(* `runtime configure opencode`: the update of the OpenCode configuration, *)
(* alone or together with that of Oh My OpenAgent as one compensating      *)
(* transaction of two renames, and the rollback from a backup              *)
(* (run_runtime_configure of main.rs, runtime_cli.rs, openagent.rs).  The  *)
(* user edits both files with other programs, the server and the selected  *)
(* model change, and a command may fail or be killed at any step.          *)
(***************************************************************************)
EXTENDS OpenCodeConfig, Naturals, FiniteSets

CONSTANTS
  Configure,   \* the configure commands at work at one time
  Servers,     \* what the application's state may ask for: a subset of Wanted
  Edited,      \* what the user may make of the OpenCode file
  AgentEdited, \* what the user may make of the other one
  MaxEdits,    \* how often the user, the server or the state changes (a bound)
  MaxBackups   \* how many different contents are backed up (a bound)

ASSUME HandoffAssumption ==
  /\ Servers \subseteq Wanted /\ Edited \subseteq OpenCode
  /\ AgentEdited \subseteq OpenAgent /\ MaxEdits \in Nat /\ MaxBackups \in Nat

VARIABLES
  opencode,  \* the OpenCode file
  openagent, \* the Oh My OpenAgent file
  backups,   \* the contents of the backups of the OpenCode file
  live,      \* the server that answers
  wanted,    \* what the application's state asks for
  edits,     \* how often anything of these was changed from outside
  task,      \* for each command, what it does
  stale,     \* the commands under which the OpenCode file has changed
  outdated,  \* the commands under which the server has changed
  split      \* whether the files were ever updated apart from each other

configVars == <<opencode, openagent, backups>>
outsideVars == <<live, wanted, edits>>
handoffVars == <<configVars, outsideVars, task, stale, outdated, split>>

--------------------------------------------------------------------------------

\* A file is missing, no JSON, JSON of another shape than an object, or right.
FileKind == {"missing", "broken", "odd", "object"}
ConfigFile == [kind : FileKind, config : OpenCode]
AgentFile == [kind : FileKind, config : OpenAgent]
Config(f) == IF f.kind = "object" THEN f.config ELSE EmptyConfig
EmptyAgent == [route |-> NoRoute, rest |-> Absent]
NoFileContent == [kind |-> "missing", config |-> EmptyConfig]

Steps == {"idle", "plan", "verify", "check", "read", "backup", "backupAgent",
          "rename", "renameAgent", "undo", "write"}

NoTask ==
  [step |-> "idle", both |-> FALSE, force |-> FALSE,
   routing |-> [model |-> TRUE, small |-> TRUE], want |-> CHOOSE w \in Servers : TRUE,
   next |-> EmptyConfig, nextAgent |-> EmptyAgent, backup |-> NoFileContent]
Task ==
  [step : Steps, both : BOOLEAN, force : BOOLEAN, routing : Routing, want : Servers,
   next : OpenCode, nextAgent : OpenAgent, backup : ConfigFile]

\* The type invariant; only a command that has its backup renames.
HandoffTypeOK ==
  /\ opencode \in ConfigFile /\ openagent \in AgentFile
  /\ backups \subseteq ConfigFile
  /\ live \in Server /\ wanted \in Servers /\ edits \in 0 .. MaxEdits
  /\ task \in [Configure -> Task]
  /\ \A k \in Configure :
       task[k].step \in {"backupAgent", "rename", "renameAgent", "undo", "write"} =>
         task[k].backup \in backups
  /\ stale \subseteq Configure /\ outdated \subseteq Configure
  /\ split \in BOOLEAN

HandoffInit ==
  /\ opencode \in {NoFileContent} \union [kind : {"object"}, config : Edited]
  /\ openagent \in [kind : {"object"}, config : AgentEdited]
  /\ opencode.config.model = openagent.config.route
  /\ backups = {}
  /\ wanted \in Servers
  /\ live = wanted.full
  /\ edits = 0
  /\ task = [k \in Configure |-> NoTask]
  /\ stale = {} /\ outdated = {} /\ split = FALSE

--------------------------------------------------------------------------------
(* The command *)

To(k, next) == task' = [task EXCEPT ![k].step = next]

Finish(k) ==
  /\ task' = [task EXCEPT ![k] = NoTask]
  /\ stale' = stale \ {k}
  /\ outdated' = outdated \ {k}

\* Every command but k that has begun now holds an older copy.
Staled(k) == stale \union {j \in Configure \ {k} : task[j].step # "idle"}

\* Another update of both files has its backup, which no longer is what k leaves.
Overlaps(k) ==
  \E j \in Configure \ {k} :
    task[j].both /\ task[j].step \in {"backupAgent", "rename", "renameAgent", "undo"}

Fails(k) == Finish(k) /\ UNCHANGED <<configVars, outsideVars, split>>

\* The state is loaded; Oh My OpenAgent takes part if it is there and the user
\* does not say otherwise, and then only with the default routing.
BeginConfigure(k) ==
  /\ task[k].step = "idle"
  /\ \E both, force \in BOOLEAN, routing \in Routing :
       /\ both => openagent.kind # "missing" /\ routing.model /\ routing.small
       /\ task' = [task EXCEPT ![k] = [NoTask EXCEPT !.step = "plan", !.both = both,
                     !.force = force, !.routing = routing, !.want = wanted]]
  /\ UNCHANGED <<configVars, outsideVars, stale, outdated, split>>

\* read_json_or_empty, validate_config_shape and read_openagent.
Readable(k) ==
  /\ opencode.kind # "broken"
  /\ opencode.kind = "odd" => task[k].force
  /\ task[k].both => openagent.kind = "object"

Consented(k) ==
  ~ProviderConflicts(Config(opencode), task[k].want) \/ task[k].force

\* The plan is shown; a dry run ends here.
PlanConfigure(k) ==
  /\ task[k].step = "plan"
  /\ Readable(k)
  /\ Consented(k)
  /\ To(k, "verify")
  /\ UNCHANGED <<configVars, outsideVars, stale, outdated, split>>

\* The live server must serve the model with its context, if a route is set.
ServerVerified(k) ==
  LET t == task[k] IN
    t.routing.model \/ t.routing.small => live = t.want.full

VerifyServer(k) ==
  /\ task[k].step = "verify"
  /\ ServerVerified(k)
  /\ To(k, IF task[k].both THEN "check" ELSE "read")
  /\ stale' = stale \ {k} /\ outdated' = outdated \ {k}
  /\ UNCHANGED <<configVars, outsideVars, split>>

\* apply_opencode_handoff plans once more, before it reads the files again.
CheckHandoff(k) ==
  /\ task[k].step = "check"
  /\ Readable(k)
  /\ Consented(k)
  /\ To(k, "read")
  /\ stale' = stale \ {k}
  /\ UNCHANGED <<configVars, outsideVars, outdated, split>>

\* What the files are to be.  Alone, the conflicts are of this reading.
ReadConfigs(k) ==
  /\ task[k].step = "read"
  /\ Readable(k)
  /\ task[k].both \/ Consented(k)
  /\ task' = [task EXCEPT
       ![k].step = "backup",
       ![k].next = Merged(Config(opencode), task[k].want, task[k].routing),
       ![k].nextAgent = IF task[k].both THEN Rerouted(openagent.config, task[k].want)
                        ELSE EmptyAgent]
  /\ stale' = IF task[k].both THEN stale ELSE stale \ {k}
  /\ UNCHANGED <<configVars, outsideVars, outdated, split>>

\* Mutant: there is no backup.
BackedUpNever(f) == backups

\* create_backup finds a name that is not taken.
BackedUp(f) == backups \union {f}

\* The file is copied as it is now; a missing one is backed up as an empty
\* object, and cannot be when both files are updated.
BackUp(k) ==
  /\ task[k].step = "backup"
  /\ opencode.kind = "missing" => ~task[k].both
  /\ LET f == IF opencode.kind = "missing"
              THEN [kind |-> "object", config |-> EmptyConfig] ELSE opencode
     IN /\ Cardinality(backups \union {f}) <= MaxBackups
        /\ backups' = BackedUp(f)
        /\ task' = [task EXCEPT ![k].backup = f,
                      ![k].step = IF task[k].both THEN "backupAgent" ELSE "rename"]
  /\ UNCHANGED <<opencode, openagent, outsideVars, stale, outdated, split>>

\* The second backup, and the two files staged and read back.
BackUpAgent(k) ==
  /\ task[k].step = "backupAgent"
  /\ openagent.kind # "missing"
  /\ To(k, "rename")
  /\ UNCHANGED <<configVars, outsideVars, stale, outdated, split>>

RenameOpenCode(k) ==
  /\ task[k].step = "rename"
  /\ opencode' = [kind |-> "object", config |-> task[k].next]
  /\ IF task[k].both
     THEN /\ To(k, "renameAgent")
          /\ stale' = Staled(k) \ {k}
          /\ split' = (split \/ Overlaps(k))
          /\ UNCHANGED outdated
     ELSE /\ task' = [task EXCEPT ![k] = NoTask]
          /\ stale' = Staled(k) \ {k}
          /\ outdated' = outdated \ {k}
          /\ split' = TRUE
  /\ UNCHANGED <<openagent, backups, outsideVars>>

RenameOpenAgent(k) ==
  /\ task[k].step = "renameAgent"
  /\ openagent' = [kind |-> "object", config |-> task[k].nextAgent]
  /\ Finish(k)
  /\ UNCHANGED <<opencode, backups, outsideVars, split>>

\* Mutant: the first rename stays, and nothing is undone.
RenameAgentFailsOnly(k) == task[k].step = "renameAgent" /\ Fails(k)

\* The second rename fails: the first file is to get its backup back.
RenameAgentFails(k) ==
  /\ task[k].step = "renameAgent"
  /\ To(k, "undo")
  /\ UNCHANGED <<configVars, outsideVars, stale, outdated, split>>

\* fs::copy of the backup.
UndoRename(k) ==
  /\ task[k].step = "undo"
  /\ opencode' = task[k].backup
  /\ task' = [task EXCEPT ![k] = NoTask]
  /\ stale' = Staled(k) \ {k}
  /\ outdated' = outdated \ {k}
  /\ split' = (split \/ Overlaps(k))
  /\ UNCHANGED <<openagent, backups, outsideVars>>

\* TransactionRollback: the two files are apart, and the user is told.
UndoFails(k) ==
  /\ task[k].step = "undo"
  /\ \E f \in {opencode, [kind |-> "broken", config |-> EmptyConfig]} : opencode' = f
  /\ task' = [task EXCEPT ![k] = NoTask]
  /\ stale' = Staled(k) \ {k}
  /\ outdated' = outdated \ {k}
  /\ split' = TRUE
  /\ UNCHANGED <<openagent, backups, outsideVars>>

\* What is not right, not confirmed or not possible ends the command.
ConfigureFails(k) ==
  /\ task[k].step \in {"plan", "verify", "check", "read", "backup", "backupAgent", "rename"}
  /\ Fails(k)

\* --rollback --opencode-only: the backup is parsed and written over the file,
\* which is truncated first.
BeginRollback(k) ==
  /\ task[k].step = "idle"
  /\ \E f \in backups : task' = [task EXCEPT ![k] = [NoTask EXCEPT !.step = "write", !.backup = f]]
  /\ opencode' = [kind |-> "broken", config |-> EmptyConfig]
  /\ stale' = Staled(k)
  /\ split' = TRUE
  /\ UNCHANGED <<openagent, backups, outsideVars, outdated>>

EndRollback(k) ==
  /\ task[k].step = "write"
  /\ opencode' = task[k].backup
  /\ task' = [task EXCEPT ![k] = NoTask]
  /\ stale' = Staled(k) \ {k}
  /\ outdated' = outdated \ {k}
  /\ UNCHANGED <<openagent, backups, outsideVars, split>>

ConfigureKilled(k) ==
  /\ task[k].step # "idle"
  /\ Finish(k)
  /\ split' = (split \/ task[k].step \in {"renameAgent", "undo"})
  /\ UNCHANGED <<configVars, outsideVars>>

--------------------------------------------------------------------------------
(* Everyone else *)

Outside == edits < MaxEdits /\ edits' = edits + 1

\* The user saves the OpenCode file, in whatever shape, or removes it.
UserEdits ==
  /\ Outside
  /\ \E f \in [kind : {"object"}, config : Edited]
                \union [kind : {"missing", "odd", "broken"}, config : {EmptyConfig}] :
       opencode' = f
  /\ split' = (split \/ Config(opencode').model # Config(opencode).model)
  /\ stale' = stale \union {j \in Configure : task[j].step # "idle"}
  /\ UNCHANGED <<openagent, backups, live, wanted, task, outdated>>

\* The server is started again with another model, or another one is selected.
ServerChanges ==
  /\ Outside
  /\ \E w \in Servers : live' = w.full /\ wanted' \in {wanted, w}
  /\ outdated' = outdated \union {j \in Configure : task[j].step # "idle"}
  /\ UNCHANGED <<configVars, task, stale, split>>

ConfigureStep(k) ==
  \/ BeginConfigure(k)
  \/ PlanConfigure(k)
  \/ VerifyServer(k)
  \/ CheckHandoff(k)
  \/ ReadConfigs(k)
  \/ BackUp(k)
  \/ BackUpAgent(k)
  \/ RenameOpenCode(k)
  \/ RenameOpenAgent(k)
  \/ RenameAgentFails(k)
  \/ UndoRename(k)
  \/ UndoFails(k)
  \/ ConfigureFails(k)
  \/ BeginRollback(k)
  \/ EndRollback(k)
  \/ ConfigureKilled(k)

HandoffNext ==
  \/ \E k \in Configure : ConfigureStep(k)
  \/ UserEdits
  \/ ServerChanges

HandoffSpec == HandoffInit /\ [][HandoffNext]_handoffVars

--------------------------------------------------------------------------------
(* Properties. *)

\* As long as both files are updated together, one command after another, and nobody
\* else changes their route, they name the same one whenever no command is between
\* its two renames, also after a second rename that failed.
RoutesAligned ==
  ~split /\ (\A k \in Configure : task[k].step \notin {"renameAgent", "undo"}) =>
    Config(opencode).model = openagent.config.route

\* An update leaves the user's part of the file as it was when the command last
\* checked it: the rest, the other providers, and the options of lmml's own.
UsersPartKept ==
  [][\A k \in Configure :
       RenameOpenCode(k) /\ k \notin stale =>
         LET c == Config(opencode)  d == Config(opencode') IN
           /\ d.rest = c.rest
           /\ \A n \in Provider \ Managed : d.provider[n] = c.provider[n]
           /\ c.provider[Full].options # Absent =>
                d.provider[Full].options = c.provider[Full].options]_handoffVars

\* An entry of lmml's that differs from what is wanted is replaced or removed only
\* with --force, unless the file changed after the conflicts were looked for.
ReplacedWithConsent ==
  [][\A k \in Configure :
       RenameOpenCode(k) /\ k \notin stale /\ ~task[k].force =>
         \A n \in Managed :
           \/ Config(opencode).provider[n] \in {NoEntry, Patched(task[k].want)[n]}]_handoffVars

\* What an update replaces can be rolled back to, however many updates follow,
\* unless the file changed between the backup and the rename.
ReplacedIsBackedUp ==
  [][/\ backups \subseteq backups'
     /\ \A k \in Configure :
          RenameOpenCode(k) /\ k \notin stale /\ opencode.kind # "missing" =>
            opencode \in backups]_handoffVars

\* A route that an update publishes is that of a server that answered with the
\* model, unless that changed since.
PublishedIsLive ==
  [][\A k \in Configure :
       /\ RenameOpenCode(k) /\ k \notin outdated
       /\ task[k].routing.model
       => Config(opencode').model = <<Full, live.body>>]_handoffVars

\* The routes that are published agree.
HandoffInv == HandoffTypeOK /\ RoutesAligned

\* What the user wrote is neither lost nor replaced unasked nor without a backup, and
\* what is published in its place is live.
HandoffKeeps ==
  UsersPartKept /\ ReplacedWithConsent /\ ReplacedIsBackedUp /\ PublishedIsLive

================================================================================
