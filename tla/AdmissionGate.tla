----------------------------- MODULE AdmissionGate -----------------------------
(***************************************************************************)
(* What the gateway's admission promises, without the locks, the approval  *)
(* files or the refreshes that implement it: a gate that is opened at most *)
(* once and, once shut, never opens again.  A request works only on a pass *)
(* that it was given while the gate was open.                              *)
(***************************************************************************)

CONSTANT Request     \* the requests that come to the gateway

VARIABLES
  gate,              \* "Pending" until opened; "Shut" for good
  passes             \* the requests that hold an unused pass

vars == <<gate, passes>>

TypeOK ==
  /\ gate \in {"Pending", "Open", "Shut"}
  /\ passes \subseteq Request

Init ==
  /\ gate = "Pending"
  /\ passes = {}

Open ==
  /\ gate = "Pending"
  /\ gate' = "Open"
  /\ UNCHANGED passes

Shut ==
  /\ gate' = "Shut"
  /\ UNCHANGED passes

\* A pass is handed out only at an open gate.
Admit(r) ==
  /\ gate = "Open"
  /\ passes' = passes \union {r}
  /\ UNCHANGED gate

\* A pass is used up by the work it allows, or given up.
Spend(r) ==
  /\ r \in passes
  /\ passes' = passes \ {r}
  /\ UNCHANGED gate

Next ==
  \/ Open
  \/ Shut
  \/ \E r \in Request : Admit(r) \/ Spend(r)

Spec == Init /\ [][Next]_vars

================================================================================
