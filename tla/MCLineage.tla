------------------------------- MODULE MCLineage -------------------------------
(* From a checkpoint to the admission of its successor, on small instances:  *)
(* the import of a checkpoint, the artifacts derived from it, and the        *)
(* records of a trained successor, once with the records replaced from       *)
(* outside and once with the files.  Each behaviour is one of one part, with *)
(* the others in an initial state.                                           *)
EXTENDS CheckpointImport, ArtifactDerivation, SuccessorPipeline, TLC

--------------------------------------------------------------------------------

(* The import of a checkpoint of up to two shards and two tensors.         *)

Place(start, stop, size) == [start |-> start, stop |-> stop, size |-> size]
Weigh(header, length, w) == [header |-> header, length |-> length, weights |-> w]

\* One tensor, two against their order, two with a gap, two that overlap, a
\* truncated payload, and two of which one is empty.
MCBody ==
  LET one == 1 :> Place(0, 2, 2)
      Two(a, b) == 1 :> a @@ 2 :> b
  IN {Weigh(one, 2, "w"), Weigh(one, 2, "v"), Weigh(2 :> Place(0, 1, 1), 1, "w"),
      Weigh(Two(Place(1, 2, 1), Place(0, 1, 1)), 2, "w"),
      Weigh(Two(Place(0, 1, 1), Place(2, 3, 1)), 3, "w"),
      Weigh(Two(Place(0, 2, 2), Place(1, 2, 1)), 2, "w"),
      Weigh(one, 1, "w"),
      Weigh(Two(Place(0, 1, 1), Place(0, 0, 0)), 1, "w"),
      Weigh(Two(Place(0, 0, 0), Place(0, 1, 1)), 1, "w")}

MCMap == {1 :> 1, 1 :> 1 @@ 2 :> 2, 1 :> 1 @@ 2 :> 1, 1 :> 2 @@ 2 :> 1}

--------------------------------------------------------------------------------

DSym == Permutations(Deriver) \union Permutations(OutputPath)

--------------------------------------------------------------------------------

(* Authorizations, reports and baselines of which one thing each is wrong. *)

Entry(name, wild) == [name |-> name, wild |-> wild]
QA == <<"q", "lora_A">>
MCInventory ==
  LET Of(allow, names) == [allow |-> allow, names |-> names]
  IN [exact |-> Of(<<Entry(QA, FALSE)>>, <<QA>>),
      wild |-> Of(<<Entry(<<"q">>, TRUE)>>, <<QA>>),
      all |-> Of(<<Entry(<<>>, TRUE)>>, <<QA>>),
      other |-> Of(<<Entry(<<"v">>, TRUE)>>, <<QA>>),
      weights |-> Of(<<Entry(<<"q">>, TRUE)>>, <<<<"q", "weight">>>>),
      twice |-> Of(<<Entry(QA, FALSE)>>, <<QA, QA>>)]

Authorize(base, dataset, inventory, time) ==
  [kind |-> "authorization", base |-> base, dataset |-> dataset, inventory |-> inventory,
   time |-> time]
\* Three that hold and three that do not.
MCAuthorizations ==
  {Authorize("b1", "d1", MCInventory.exact, 0), Authorize("b1", "d1", MCInventory.wild, 1),
   Authorize("b2", "d1", MCInventory.all, 0)}
  \union {Authorize("b1", "d1", MCInventory[i], 0) : i \in {"other", "weights", "twice"}}

MCAdapter ==
  {[lora |-> TRUE, finite |-> TRUE], [lora |-> FALSE, finite |-> TRUE], [lora |-> TRUE, finite |-> FALSE]}
MCMerged ==
  {[structure |-> "of the base", finite |-> TRUE], [structure |-> "of the base", finite |-> FALSE],
   [structure |-> "other", finite |-> TRUE]}

MCTrainingReports(a) ==
  LET good == [kind |-> "training", authorization |-> a, base |-> a.base, dataset |-> a.dataset,
               inventory |-> a.inventory, finite |-> TRUE, time |-> 1,
               adapter |-> [lora |-> TRUE, finite |-> TRUE]]
  IN IF ~AuthorizationHolds(a) THEN {good}
     ELSE {good, [good EXCEPT !.base = "b2"], [good EXCEPT !.dataset = "d2"],
           [good EXCEPT !.time = 0], [good EXCEPT !.finite = FALSE],
           [good EXCEPT !.adapter = [lora |-> TRUE, finite |-> FALSE]]}

MCBaselines ==
  {[kind |-> "baseline", parent |-> "b1", cases |-> {[case |-> i] : i \in 1 .. n}] : n \in 1 .. 2}

MCAdmissionReports(c, t, b) ==
  LET Result(i) == [case |-> i, parent |-> 1, candidate |-> 1, delta |-> 0, maximum |-> 0,
                    passed |-> TRUE]
      good == [kind |-> "successor", parent |-> c.parent, candidate |-> c,
               training |-> t, baseline |-> b, dataset |-> t.dataset,
               inventory |-> t.inventory, merged |-> c.merged,
               regression |-> {Result(x.case) : x \in b.cases}, time |-> 1]
  IN {good, [good EXCEPT !.dataset = "d2"], [good EXCEPT !.time = 0],
      [good EXCEPT !.regression = {Result(1)}],
      [good EXCEPT !.regression = {[Result(x.case) EXCEPT !.candidate = 2, !.delta = 1] : x \in b.cases}],
      [good EXCEPT !.regression = {[Result(x.case) EXCEPT !.candidate = 2] : x \in b.cases}]}

--------------------------------------------------------------------------------

VARIABLE part   \* the part that takes the steps

--------------------------------------------------------------------------------

(* One initial state of each part that takes no steps. *)
ImportIdle == checkpoint = CHOOSE c \in Checkpoint : TRUE
PipelineIdle == adapter = (CHOOSE f \in Adapter : TRUE) /\ merged = (CHOOSE m \in Merged : TRUE)

LineageInit ==
  /\ part \in {"import", "derivation", "records", "files"}
  /\ IF part = "import" THEN TRUE ELSE ImportIdle
  /\ IF part \in {"records", "files"} THEN TRUE ELSE PipelineIdle
  /\ ImportInit /\ DerivationInit /\ PipelineInit

LineageNext ==
  /\ UNCHANGED part
  /\ \/ /\ part = "import" /\ ImportNext
        /\ UNCHANGED <<derivationVars, pipelineVars>>
     \/ /\ part = "derivation" /\ DerivationNext
        /\ UNCHANGED <<checkpointVars, pipelineVars>>
     \/ /\ \/ part = "records" /\ UNCHANGED swaps
           \/ part = "files" /\ UNCHANGED replacements
        /\ PipelineNext
        /\ UNCHANGED <<checkpointVars, derivationVars>>

LineageSpec ==
  LineageInit
    /\ [][LineageNext]_<<part, checkpointVars, derivationVars, pipelineVars>>

================================================================================
