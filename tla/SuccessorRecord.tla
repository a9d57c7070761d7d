---------------------------- MODULE SuccessorRecord ----------------------------
(***************************************************************************)
(* What the registration of a successor promises to a reader of the model  *)
(* store: the lineage is absent, provisional (its canonical record is out  *)
(* but nothing admits it) or admitted, and admitted is for good.  Nothing  *)
(* is promised once calls for the lineage have overlapped.                 *)
(***************************************************************************)

VARIABLES lineage, contended

Stages == {"Absent", "Provisional", "Admitted"}

Init == lineage = "Absent" /\ contended = FALSE

Publish  == lineage = "Absent" /\ lineage' = "Provisional" /\ UNCHANGED contended
Withdraw == lineage = "Provisional" /\ lineage' = "Absent" /\ UNCHANGED contended
Admit    == lineage = "Provisional" /\ lineage' = "Admitted" /\ UNCHANGED contended
Contend  == contended' = TRUE /\ lineage' \in Stages

Next == Publish \/ Withdraw \/ Admit \/ Contend

Spec == Init /\ [][Next]_<<lineage, contended>>

================================================================================
