------------------------------- MODULE MCStores --------------------------------
(* The files that commands leave behind, on small instances: the admission   *)
(* of a successor, approval records with their anchor, the rotation of trust *)
(* roots, downloaded models with the list the panel has of them, the         *)
(* configuration of the coding tools, and the settings in the state file.    *)
(* Each behaviour is one of one part, with the others in an initial state.   *)
EXTENDS SuccessorAdmission, MCApprovalAnchor, MCTrustRotation, ModelDownload,
        ConfigHandoff, SettingsEdit, ModelPanel, TLC

--------------------------------------------------------------------------------

(* Small instances of SuccessorAdmission. *)

CONSTANTS
  j1, j2, j3, j4,             \* calls
  canonical, first, second,   \* paths
  lineageA, lineageB,    \* contents of the canonical record
  reportA, reportB       \* contents of the admission record

MCPath == {canonical, first, second}
MCPayload == {lineageA, lineageB, reportA, reportB}

\* Two calls admit the same successor with different reports under the default
\* path, the third admits it under another path, and the fourth brings another
\* candidate for the lineage.
MCTarget == (j1 :> first) @@ (j2 :> first) @@ (j3 :> second) @@ (j4 :> first)

MCBundle ==
  (j1 :> [canonical |-> lineageA, admission |-> reportA]) @@
  (j2 :> [canonical |-> lineageA, admission |-> reportB]) @@
  (j3 :> [canonical |-> lineageA, admission |-> reportB]) @@
  (j4 :> [canonical |-> lineageB, admission |-> reportA])

--------------------------------------------------------------------------------

(* Small instances of ConfigHandoff. *)

CONSTANTS full, fast, other, u1, u2, b1, b2   \* providers, endpoints, models

One == [url |-> u1, body |-> b1]
Two == [url |-> u2, body |-> b2]
MCServers == {[dual |-> FALSE, full |-> Two, fast |-> Two],
              [dual |-> TRUE, full |-> One, fast |-> Two]}

\* A provider of the user's own; an entry of lmml's with options of the user's,
\* or with another endpoint; and a fast entry that is in the way.
Mine == [url |-> u2, options |-> "lmml", body |-> b1]
Users == [url |-> u1, options |-> "user", body |-> b1]
MCEdited ==
  {[EmptyConfig EXCEPT !.rest = "mine", !.model = <<other, b1>>, !.provider[other] = Mine],
   [EmptyConfig EXCEPT !.rest = "mine", !.model = <<full, b1>>, !.small = <<fast, b1>>,
                       !.provider[full] = Users],
   [EmptyConfig EXCEPT !.rest = "yours", !.model = <<full, b1>>,
                       !.provider[full] = Mine, !.provider[fast] = Users]}
MCAgentEdited == [route : {NoRoute, <<other, b1>>, <<full, b1>>}, rest : {"mine"}]

--------------------------------------------------------------------------------

(* One field of each kind, with the tokens at the ends of its range. *)

MCFieldOrder == <<"runtime", "host", "port", "mlock", "api_key", "extra_args">>

MCToken ==
  [runtime    |-> {"auto", "a"},
   host       |-> {"a", "-1", Blank},
   port       |-> {"0", "1", "65535", "65536"},
   mlock      |-> {"true", "a"},
   api_key    |-> {"a", Blank},
   extra_args |-> {"a", Blank, "\"", "\\"}]

MCTextToken ==
  UNION {MCToken[f] : f \in DOMAIN MCToken} \union Special \union {"true", "false"}

(* As a user may have left it in the file: a blank after the host, and a     *)
(* port that no edit would accept.                                           *)
MCLoadedSetting ==
  {[runtime |-> <<"auto">>, host |-> <<"a", Blank>>, port |-> <<"0">>, mlock |-> <<"false">>,
    api_key |-> <<"a">>, extra_args |-> <<<<"a">>, <<"a">>>>]}

(* A profile that changes a switch, the key and the arguments, which are not *)
(* shown as what they are.                                                   *)
MCProfileSetting ==
  {[runtime |-> <<"auto">>, host |-> <<"-1">>, port |-> <<"1">>, mlock |-> <<"true">>,
    api_key |-> <<>>, extra_args |-> <<<<"a", Blank, "a">>, <<>>>>]}

--------------------------------------------------------------------------------

(* The downloads are alike.                                                  *)
StoresSymmetry == Permutations(Download)

--------------------------------------------------------------------------------

CONSTANTS d1, d2, f1, f2, f3   \* downloads and inodes

\* The second version of a model file is shorter than the first.
MCVersionSize == <<2, 1>>

VARIABLE part   \* the part that takes the steps

--------------------------------------------------------------------------------

StoresInit ==
  /\ part \in {"successor", "anchor", "rotation", "download", "handoff", "settings", "models"}
  /\ Init /\ AnchorInit /\ RotationInit /\ DownloadInit /\ HandoffInit
  /\ SettingsInit /\ PanelInit
  /\ part # "handoff" => opencode.kind = "missing" /\ ~wanted.dual
  /\ part # "settings" => stored = (CHOOSE x \in LoadedSetting : TRUE) /\ settings = stored
  /\ part # "models" => files = {} /\ tasks[CHOOSE t \in Slot : TRUE] # IdleSlot

(* The variables of each part. *)
PartVars ==
  <<vars, anchorVars, rotationVars, downloadVars, handoffVars, settingsVars, modelPanelVars>>

StoresNext ==
  /\ UNCHANGED part
  /\ \/ /\ part = "successor" /\ Next
        /\ UNCHANGED <<anchorVars, rotationVars, downloadVars, handoffVars, settingsVars, modelPanelVars>>
     \/ /\ part = "anchor" /\ AnchorNext
        /\ UNCHANGED <<vars, rotationVars, downloadVars, handoffVars, settingsVars, modelPanelVars>>
     \/ /\ part = "rotation" /\ RotationNext
        /\ UNCHANGED <<vars, anchorVars, downloadVars, handoffVars, settingsVars, modelPanelVars>>
     \/ /\ part = "download" /\ DownloadNext
        /\ UNCHANGED <<vars, anchorVars, rotationVars, handoffVars, settingsVars, modelPanelVars>>
     \/ /\ part = "handoff" /\ HandoffNext
        /\ UNCHANGED <<vars, anchorVars, rotationVars, downloadVars, settingsVars, modelPanelVars>>
     \/ /\ part = "settings" /\ SettingsNext
        /\ UNCHANGED <<vars, anchorVars, rotationVars, downloadVars, handoffVars, modelPanelVars>>
     \/ /\ part = "models" /\ PanelNext
        /\ UNCHANGED <<vars, anchorVars, rotationVars, downloadVars, handoffVars, settingsVars>>

StoresSpec == StoresInit /\ [][StoresNext]_<<part, PartVars>>

================================================================================
