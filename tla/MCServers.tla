-------------------------------- MODULE MCServers -------------------------------
(* The servers that LMML starts: one at a time for the panel (ServerSession),  *)
(* and one for each runtime profile (RuntimeProfiles).  Each behaviour is one  *)
(* of one part, with the other in its initial state.  As a bound, a behaviour *)
(* in which lmml processes raced ends with the first of them that is killed   *)
(* or cannot save.                                                            *)
EXTENDS ServerSession, RuntimeProfiles, TLC

--------------------------------------------------------------------------------

(* Two starts of the same model, so that one may be taken for the other. *)

CONSTANTS s1, s2, m

MCServes == (s1 :> m) @@ (s2 :> m)
SessionSymmetry == Permutations(Start)

--------------------------------------------------------------------------------

(* Two profiles with models of their own, which use the same port, and two    *)
(* process ids, which are alike.                                            *)

CONSTANTS k1, q1, q2, p1, p2

MCModelOf == (q1 :> 1) @@ (q2 :> 2)

PidSymmetry == Permutations(Pid)

--------------------------------------------------------------------------------

VARIABLE part   \* the part that takes the steps

--------------------------------------------------------------------------------

ServersSymmetry == SessionSymmetry \union PidSymmetry

ServersInit == part \in {"session", "profiles"} /\ Init /\ ProfileInit

ServersNext ==
  /\ UNCHANGED part
  /\ \/ part = "session" /\ Next /\ UNCHANGED profileVars
     \/ /\ part = "profiles" /\ (raced => ~broken)
        /\ ProfileNext /\ UNCHANGED vars

ServersSpec == ServersInit /\ [][ServersNext]_<<part, vars, profileVars>>

================================================================================
