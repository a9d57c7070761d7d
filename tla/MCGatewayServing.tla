--------------------------- MODULE MCGatewayServing ---------------------------
(* What an approved server rests on, on small instances: the gateway with    *)
(* its approval files, the launch that opens it, the publication of the      *)
(* deployment snapshot, and the evidence about the servers of an admitted    *)
(* artifact.  Each behaviour is one of one part, with the others in an       *)
(* initial state.                                                            *)
EXTENDS MCGatewayAdmission, ApprovedLaunch, DeploymentSnapshot, ModelEvidence

--------------------------------------------------------------------------------

Running(model, context, binary, endpoint) ==
  [model |-> model, context |-> context, binary |-> binary, endpoint |-> endpoint]
MCProcess ==
  {Running("artifact", 1, "b1", "e1"), Running("artifact", 1, "b1", "none"),
   Running("namesake", 1, "b1", "e1"), Running("other", 1, "b1", "e1"),
   Running("artifact", 0, "b1", "e1")}

Argument(flag, glued, equals) == [flag |-> flag, glued |-> glued, equals |-> equals]
MCExtraArgs ==
  {{}, {Argument("--threads", FALSE, FALSE)}, {Argument("-m", FALSE, FALSE)},
   {Argument("-m", TRUE, FALSE)}, {Argument("--seed", FALSE, TRUE)},
   {Argument("--threads", FALSE, TRUE), Argument("-n", TRUE, FALSE)}}

--------------------------------------------------------------------------------

CONSTANTS
  m1, m2, e1, e2,  \* model files and executables
  k1, k2, x1, x2   \* publishers and contents

P1 == [artifact |-> m1, renderer |-> e1]
P2 == [artifact |-> m2, renderer |-> e1]
R1 == [prompt |-> P1, executable |-> e1, argv |-> 1]
R2 == [prompt |-> P2, executable |-> e1, argv |-> 2]
D1 == [prompt |-> P1, runtime |-> R1, artifact |-> m1, model |-> m1, server |-> e1]

MCPrompts == {P1, P2}
MCRuntimes == {R1, R2}
MCDeployments == {D1, [D1 EXCEPT !.runtime = R2]}

VARIABLE part   \* the part that takes the steps

--------------------------------------------------------------------------------

ServingInit ==
  /\ part \in {"gateway", "launch", "snapshot", "evidence"}
  /\ IF part = "evidence" THEN TRUE
     ELSE file = Admitted /\ process = [i \in ProcessId |-> Exited]
  /\ Init /\ LaunchInit /\ SnapshotInit /\ EvidenceInit
  /\ prompt = P1 /\ runtime = R1 /\ deployment = D1
  /\ part # "snapshot" => input = [p \in Part |-> x1]

ServingNext ==
  /\ UNCHANGED part
  /\ \/ /\ part = "gateway" /\ Next
        /\ UNCHANGED <<launchVars, snapshotVars, evidenceVars>>
     \/ /\ part = "launch" /\ LaunchNext
        /\ UNCHANGED <<vars, snapshotVars, evidenceVars>>
     \/ /\ part = "snapshot" /\ SnapshotNext
        /\ UNCHANGED <<vars, launchVars, evidenceVars>>
     \/ /\ part = "evidence" /\ EvidenceNext
        /\ UNCHANGED <<vars, launchVars, snapshotVars>>

ServingSpec ==
  ServingInit /\ [][ServingNext]_<<part, vars, launchVars, snapshotVars, evidenceVars>>

================================================================================
