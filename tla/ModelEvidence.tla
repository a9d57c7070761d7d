-------------------------------- MODULE ModelEvidence --------------------------------
(***************************************************************************)
(* Evidence about an admitted artifact: the baseline of its outputs        *)
(* (`model baseline`, model_cli/baseline.rs), the registration of a server *)
(* process that runs it and the lease of a registered one                  *)
(* (`runtime register` and `runtime request`, lifecycle_runtime_cli.rs,    *)
(* with issue_model_lease of lmml-substrate).  What a record puts together *)
(* is looked at one thing at a time, each thing before and after the       *)
(* slow ones, while files and processes change.  A hash is the content it  *)
(* is taken of; there is one artifact, of which the commands read the file.*)
(***************************************************************************)
EXTENDS Naturals, Sequences

CONSTANTS
  Witness,    \* the running commands
  FileBytes, Admitted, \* contents of the artifact's file, and the one that was admitted
  ProcessId,
  Process,    \* what a process may be, see ProcessOK
  Endpoint,
  RuntimeId,  \* ids of runtimes, naturals in their order
  ExtraArgs,  \* the arguments a user may add to a baseline, see ArgumentOK
  Cases,      \* how many cases the prompts have
  MaxChange   \* how often the world changes (a bound)

\* The model a process was given, by its path, under its name elsewhere, or another;
\* the context it was given, 0 for none or more than one; its binary.
ProcessOK(p) ==
  /\ DOMAIN p = {"model", "context", "binary", "endpoint"}
  /\ p.model \in {"artifact", "namesake", "other"} /\ p.context \in Nat
  /\ p.endpoint \in Endpoint \union {"none"}

\* An argument: its flag, whether something is written to a short flag without a
\* space, which only flags of one letter take, and whether after an equals sign.
ArgumentOK(a) ==
  /\ DOMAIN a = {"flag", "glued", "equals"} /\ a.glued \in BOOLEAN /\ a.equals \in BOOLEAN
  /\ a.glued => a.flag \notin {"--temp", "--seed", "-ngl"}

ASSUME EvidenceAssumption ==
  /\ Admitted \in FileBytes /\ RuntimeId \subseteq Nat
  /\ \A p \in Process : ProcessOK(p)
  /\ \A args \in ExtraArgs : \A a \in args : ArgumentOK(a)
  /\ Cases \in Nat \ {0} /\ MaxChange \in Nat

Exited == [model |-> "none", context |-> 0, binary |-> "none", endpoint |-> "none"]
NoRuntime == [pid |-> "none", endpoint |-> "none", identity |-> Exited]
NoLease == [runtime |-> 0, of |-> NoRuntime]
NoBaseline == [outputs |-> <<>>, extra |-> {}]

VARIABLES
  file,      \* the bytes at the artifact's path
  process,   \* the process of each id
  runtimes,  \* the registered runtimes
  lease, baseline, \* the lease and the baseline, or none
  witness,   \* for each command, what it has seen
  changes

evidenceVars == <<file, process, runtimes, lease, baseline, witness, changes>>

\* "held" is whether all that is recorded was so at the moment the endpoint was asked,
\* "since" how often the world has changed after the first look.
Bystander ==
  [step |-> "idle", command |-> "none", subject |-> 0, runtime |-> NoRuntime,
   held |-> FALSE, since |-> 0, todo |-> {}, passed |-> {}, outputs |-> <<>>, extra |-> {}]

EvidenceStep ==
  {"idle", "hash", "inspect", "health", "serve", "rehash", "reinspect", "store", "next",
   "case"}

EvidenceTypeOK ==
  /\ file \in FileBytes
  /\ process \in [ProcessId -> Process \union {Exited}]
  /\ \A r \in RuntimeId : runtimes[r] = NoRuntime \/
       /\ runtimes[r].pid \in ProcessId /\ runtimes[r].endpoint \in Endpoint
       /\ runtimes[r].identity.model = "artifact" /\ runtimes[r].identity.context > 0
  /\ lease # NoLease => lease.of = runtimes[lease.runtime]
  /\ baseline # NoBaseline => Len(baseline.outputs) = Cases
  /\ \A k \in Witness : /\ witness[k].step \in EvidenceStep
                        /\ witness[k].todo \union witness[k].passed \subseteq RuntimeId
  /\ changes \in 0 .. MaxChange

OneServerEach(ps) ==
  \A i, j \in ProcessId :
    i # j /\ ps[i].endpoint = ps[j].endpoint => ps[i].endpoint = "none"

EvidenceInit ==
  /\ file \in FileBytes
  /\ process \in [ProcessId -> Process \union {Exited}] /\ OneServerEach(process)
  /\ runtimes = [r \in RuntimeId |-> NoRuntime]
  /\ lease = NoLease /\ baseline = NoBaseline
  /\ witness = [k \in Witness |-> Bystander]
  /\ changes = 0

In(k, step) == witness[k].step = step
Turn(k, w) == witness' = [witness EXCEPT ![k] = w]
Proceed(k, step) == Turn(k, [witness[k] EXCEPT !.step = step])
Observing == UNCHANGED <<file, process, runtimes, lease, baseline, changes>>

\* What inspect_process makes of a process: it was given the artifact by its path and
\* one context.
Identifies(p) == p.model = "artifact" /\ p.context > 0
Answering(e) == {process[i] : i \in {j \in ProcessId : process[j].endpoint = e}}

\* verify_served_model_endpoint compares the names of the files.
ServedAt(e) == \E p \in Answering(e) : p.model \in {"artifact", "namesake"}

--------------------------------------------------------------------------------
(* runtime register and runtime request                                    *)

BeginRegister(k) ==
  /\ In(k, "idle")
  /\ \E r \in RuntimeId, i \in ProcessId, e \in Endpoint :
       Turn(k, [Bystander EXCEPT !.step = "hash", !.command = "register", !.subject = r,
                                 !.runtime = [NoRuntime EXCEPT !.pid = i, !.endpoint = e]])
  /\ Observing

\* The runtimes that are registered, of this lineage and with the capability.
BeginRequest(k) ==
  /\ In(k, "idle")
  /\ Turn(k, [Bystander EXCEPT !.step = "next", !.command = "request",
                               !.todo = {r \in RuntimeId : runtimes[r] # NoRuntime}])
  /\ Observing

NextRuntime(k) ==
  /\ In(k, "next")
  /\ IF witness[k].todo = {} THEN Proceed(k, "store")
     ELSE \E r \in witness[k].todo :
            Turn(k, [witness[k] EXCEPT !.step = "inspect", !.subject = r, !.held = FALSE,
                                       !.since = 0, !.todo = @ \ {r},
                                       !.runtime = runtimes[r]])
  /\ Observing

\* A check that fails ends a registration, and rejects a runtime of a request.
Reject(k) ==
  IF witness[k].command = "request" THEN Proceed(k, "next") ELSE Turn(k, Bystander)

\* The first hash; a registration looks at the process after it, a request before.
CheckHash(k) ==
  /\ In(k, "hash")
  /\ IF file = Admitted
     THEN Proceed(k, CASE witness[k].command = "register" -> "inspect"
                      [] witness[k].command = "request" -> "health"
                      [] OTHER -> "case")
     ELSE Reject(k)
  /\ Observing

InspectProcess(k) ==
  LET w == witness[k]
      p == process[w.runtime.pid]
  IN /\ In(k, "inspect")
     /\ IF w.command = "register"
        THEN \E declared \in {p.context, p.context + 1} :
               IF Identifies(p) /\ declared = p.context
               THEN Turn(k, [w EXCEPT !.step = "health", !.runtime.identity = p])
               ELSE Reject(k)
        ELSE IF Identifies(p) /\ p = w.runtime.identity THEN Proceed(k, "hash") ELSE Reject(k)
     /\ Observing

AskHealth(k) ==
  /\ In(k, "health")
  /\ IF Answering(witness[k].runtime.endpoint) # {} THEN Proceed(k, "serve") ELSE Reject(k)
  /\ Observing

AskServed(k) ==
  LET w == witness[k]
  IN /\ In(k, "serve")
     /\ IF ServedAt(w.runtime.endpoint)
        THEN Turn(k, [w EXCEPT !.step = "rehash",
               !.held = file = Admitted /\ process[w.runtime.pid] = w.runtime.identity])
        ELSE Reject(k)
     /\ Observing

\* The second hash.
CheckHashAgain(k) ==
  /\ In(k, "rehash")
  /\ IF file = Admitted
     THEN Proceed(k, IF witness[k].command = "baseline" THEN "store" ELSE "reinspect")
     ELSE Reject(k)
  /\ Observing

\* Mutant: the process is not looked at again.
InspectOnce(k) ==
  LET w == witness[k]
  IN /\ In(k, "reinspect")
     /\ IF w.command = "register" THEN Proceed(k, "store")
        ELSE Turn(k, [w EXCEPT !.step = "next", !.passed = @ \union {w.subject}])
     /\ Observing

InspectAgain(k) ==
  LET w == witness[k]
  IN /\ In(k, "reinspect")
     /\ IF process[w.runtime.pid] # w.runtime.identity THEN Reject(k)
        ELSE IF w.command = "register" THEN Proceed(k, "store")
        ELSE Turn(k, [w EXCEPT !.step = "next", !.passed = @ \union {w.subject}])
     /\ Observing

\* store_runtime_manifest: a runtime that is registered stays.
StoreRuntime(k) ==
  LET w == witness[k]
  IN /\ In(k, "store") /\ w.command = "register"
     /\ IF runtimes[w.subject] = NoRuntime
        THEN runtimes' = [runtimes EXCEPT ![w.subject] = w.runtime] ELSE UNCHANGED runtimes
     /\ Turn(k, Bystander)
     /\ UNCHANGED <<file, process, lease, baseline, changes>>

\* issue_model_lease and store_model_lease: the first runtime that passed.
IssueLease(k) ==
  LET passed == witness[k].passed
  IN /\ In(k, "store") /\ witness[k].command = "request"
     /\ IF passed # {} /\ lease = NoLease
        THEN \E r \in passed :
               (\A q \in passed : r <= q) /\ lease' = [runtime |-> r, of |-> runtimes[r]]
        ELSE UNCHANGED lease
     /\ Turn(k, Bystander)
     /\ UNCHANGED <<file, process, runtimes, baseline, changes>>

--------------------------------------------------------------------------------
(* model baseline                                                          *)

\* What baseline_args sets, and what validate_extra_args keeps a user from setting
\* again: these flags, and what is glued to one of the short ones.
FixedFlag == {"-m", "-p", "--temp", "--seed", "-n", "-ngl"}
ReservedFlag ==
  FixedFlag \union {"--model", "--prompt", "-f", "--file", "--temperature", "--predict",
                    "--gpu-layers"}
ShortFlag == {"-m", "-p", "-f", "-n"}

Reserved(a) == (a.flag \in ReservedFlag /\ ~a.glued) \/ (a.flag \in ShortFlag /\ a.glued)

BeginBaseline(k) ==
  /\ In(k, "idle") /\ baseline = NoBaseline
  /\ \E args \in ExtraArgs :
       /\ \A a \in args : ~Reserved(a)
       /\ Turn(k, [Bystander EXCEPT !.step = "hash", !.command = "baseline", !.extra = args])
  /\ Observing

\* execute_case: llama-cli opens the file again for every case, and may fail.
RunCase(k) ==
  LET w == witness[k]
  IN /\ In(k, "case")
     /\ \/ Turn(k, [w EXCEPT !.step = IF Len(w.outputs) + 1 = Cases THEN "rehash" ELSE "case",
                             !.outputs = Append(@, file)])
        \/ Turn(k, Bystander)
     /\ Observing

\* store_baseline_manifest
StoreBaseline(k) ==
  LET w == witness[k]
  IN /\ In(k, "store") /\ w.command = "baseline"
     /\ IF baseline = NoBaseline
        THEN baseline' = [outputs |-> w.outputs, extra |-> w.extra] ELSE UNCHANGED baseline
     /\ Turn(k, Bystander)
     /\ UNCHANGED <<file, process, runtimes, lease, changes>>

WitnessStep(k) ==
  \/ BeginRegister(k) \/ BeginRequest(k) \/ NextRuntime(k) \/ CheckHash(k)
  \/ InspectProcess(k) \/ AskHealth(k) \/ AskServed(k) \/ CheckHashAgain(k)
  \/ InspectAgain(k) \/ StoreRuntime(k) \/ IssueLease(k)
  \/ BeginBaseline(k) \/ RunCase(k) \/ StoreBaseline(k)

\* The file is replaced, or a process ends and another may take its id.
Change ==
  /\ changes < MaxChange /\ changes' = changes + 1
  /\ \/ file' \in FileBytes \ {file} /\ UNCHANGED process
     \/ \E i \in ProcessId, p \in Process \union {Exited} :
          /\ p # process[i]
          /\ process' = [process EXCEPT ![i] = p] /\ OneServerEach(process')
          /\ UNCHANGED file
  /\ witness' = [k \in Witness |->
       IF In(k, "idle") \/ witness[k].since = 2 THEN witness[k]
       ELSE [witness[k] EXCEPT !.since = @ + 1]]
  /\ UNCHANGED <<runtimes, lease, baseline>>

EvidenceNext == Change \/ \E k \in Witness : WitnessStep(k)

EvidenceSpec == EvidenceInit /\ [][EvidenceNext]_evidenceVars

--------------------------------------------------------------------------------

\* register: the process, the bytes and the served model a registration puts together
\* were so at one moment, though they are looked at apart, unless the world changed
\* twice in the meantime.  (That the process listens at the endpoint is not looked at.)
RegisteredTogether ==
  \A k \in Witness :
    In(k, "store") /\ witness[k].command = "register" =>
      witness[k].held \/ witness[k].since = 2

\* request: the same for a lease, for which nothing is taken from the registration
\* that was not looked at again.
LeasedTogether ==
  \A k \in Witness :
    In(k, "next") /\ witness[k].command = "request"
      /\ witness[k].subject \in witness[k].passed =>
        witness[k].held \/ witness[k].since = 2

\* model baseline: the recorded outputs are all of the admitted bytes.
BaselineOfOneArtifact ==
  \A k \in Witness :
    In(k, "store") /\ witness[k].command = "baseline" =>
      \/ \A i \in DOMAIN witness[k].outputs : witness[k].outputs[i] = Admitted
      \/ witness[k].since = 2

\* validate_extra_args: what a recorded baseline fixes is given once.
FixedOnce == \A a \in baseline.extra : a.flag \notin FixedFlag

(* What is recorded of a server or of a baseline belongs together. *)
EvidenceInv ==
  EvidenceTypeOK /\ RegisteredTogether /\ LeasedTogether /\ BaselineOfOneArtifact /\ FixedOnce

================================================================================
