------------------------------ MODULE MCProgress -------------------------------
(* What a start is made from and what must follow it.  The settings of a     *)
(* launch, and what must eventually happen, on the smallest instances: a     *)
(* start of the panel is answered and the end of a server is shown, a build  *)
(* that is cancelled stops, and a download that is tried again ends.  Each   *)
(* behaviour is one of one part, with the others in an initial state.        *)
EXTENDS ServerSession, BuildPipeline, ModelDownload, LaunchSettings, TLC

--------------------------------------------------------------------------------

(* A model that lies in two directories and has two profiles, one of them    *)
(* the user's own, one whose profile an older version stored, and a larger   *)
(* one of Prism without any.                                                 *)

MCModel == {"deep", "deep2", "native", "prism"}

MCSameFile == [x \in MCModel |-> IF x = "deep2" THEN "deep" ELSE x]

MCSizeMb == [x \in MCModel |-> IF x = "prism" THEN 2000 ELSE 1000]

W(word) == <<word>>

ServerOf(long, args) ==
  [endpoint |-> "e1", key |-> FALSE, long |-> long, layers |-> 0 - 1, args |-> args]

MCLegacyServer == ServerOf(FALSE, <<W("--spec-type"), W("draft-mtp")>>)

Drafting == <<W("--spec-type"), W("draft-mtp"), W("-md"), W("draft-beside")>>

MCBuiltin ==
  <<[name |-> "d1", model |-> "deep", server |-> ServerOf(TRUE, Drafting)],
    [name |-> "d2", model |-> "deep", server |-> ServerOf(FALSE, <<W("-ctk"), W("q4")>>)],
    [name |-> "n1", model |-> "native",
     server |-> ServerOf(TRUE, <<W("--spec-type"), W("draft-mtp")>>)]>>

MCLoadedProfile ==
  {<<[name |-> "n1", model |-> "native", server |-> MCLegacyServer],
     [name |-> "d2", model |-> "deep",
      server |-> [ServerOf(FALSE, <<W("--temp"), W("0.5")>>) EXCEPT !.endpoint = "e2"]]>>}

MCText ==
  SafeguardText \union DraftFlag \union
  {"--spec-type", "draft-mtp", "--spec-draft-n-max", "draft-beside", "-np", "4", "q4", "0.5"}

\* One bundle, whose port is that of the second endpoint.
MCPublicEndpoint == [e \in Endpoint |-> {"e2"}]

MCArguments == {<<W("--temp")>>, <<W("-np"), W("4")>> \o Drafting}

--------------------------------------------------------------------------------

CONSTANTS s1, small, a, d1, f1, f2

MCServesOne == s1 :> small

MCVersionSize == <<2, 1>>

VARIABLE part   \* the part that takes the steps

--------------------------------------------------------------------------------

ProgressInit ==
  /\ part \in {"session", "build", "download", "launch"}
  /\ Init /\ LaunchInit /\ BuildInit /\ DownloadInit
  /\ flavor = "Prism"   \* the longer of the two pipelines
  /\ part # "build" => tree = NoBuild
  /\ entered = CHOOSE e \in Endpoint : TRUE
  /\ part # "launch" => saved.profiles = CHOOSE known \in LoadedProfile : TRUE

ProgressNext ==
  /\ UNCHANGED part
  /\ \/ /\ part = "session" /\ Next
        /\ UNCHANGED <<buildVars, downloadVars, launchVars>>
     \/ /\ part = "build" /\ BuildNext
        /\ UNCHANGED <<vars, downloadVars, launchVars>>
     \/ /\ part = "download" /\ DownloadNext
        /\ UNCHANGED <<vars, buildVars, launchVars>>
     \/ /\ part = "launch" /\ LaunchNext
        /\ UNCHANGED <<vars, buildVars, downloadVars>>

(* The fairness of each part, while it is the one that takes the steps: what *)
(* the others could do must not be waited for.                               *)
ProgressFairness ==
  /\ WF_vars(part = "session" /\ LoopStep)
  /\ \A s \in Start :
       /\ SF_vars(part = "session" /\ TaskStep(s))
       /\ WF_vars(part = "session" /\ (TaskSeesReady(s) \/ TaskTimesOut(s)))
       /\ WF_vars(part = "session" /\ MonitorLooks(s))
       /\ SF_vars(part = "session" /\ Room /\ MonitorReports(s))
       /\ WF_vars(part = "session" /\ ForwarderSees(s))
       /\ SF_vars(part = "session" /\ ForwarderSends(s))
  /\ \A b \in BuildId :
       /\ WF_buildVars(part = "build" /\ TaskGoes(b))
       /\ WF_buildVars(part = "build" /\ command[b] = "waiting" /\ ProcessEnds(b))
  /\ \A d \in Download :
       /\ WF_downloadVars(part = "download" /\ StartDownload(d))
       /\ SF_downloadVars(part = "download" /\ OpenPart(d))
       /\ SF_downloadVars(part = "download" /\ AnswerDownload(d))
       /\ SF_downloadVars(part = "download" /\ ReceiveChunk(d))
       /\ SF_downloadVars(part = "download" /\ FinishDownload(d))

ProgressSpec ==
  /\ ProgressInit
  /\ [][ProgressNext]_<<part, vars, buildVars, downloadVars, launchVars>>
  /\ ProgressFairness

================================================================================
