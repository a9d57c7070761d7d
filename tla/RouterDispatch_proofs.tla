-------------------------- MODULE RouterDispatch_proofs ------------------------
(***************************************************************************)
(* Proofs of the properties of RouterDispatch, for any requests, names,    *)
(* nodes, advertisements, loads, expiry and probe timeout; of those of     *)
(* NodeAgent, for any calls, configurations and endpoints; of those of     *)
(* RouterCatalog, for any arguments, keys, models and answers; and of      *)
(* those of MessagesBridge, for any conversations and answers.             *)
(***************************************************************************)
EXTENDS RouterDispatch, NodeAgent, RouterCatalog, MessagesBridge, FiniteSetTheorems,
        SequenceTheorems, WellFoundedInduction, TLAPS

\* The advertisement a table entry or a candidate rests on.
Source(n, x) == [id |-> n, url |-> x.url]

\* An entry that has not expired is as old as its advertisement, or older.
TableInv ==
  \A n \in Name : table[n] # None =>
    /\ Source(n, table[n]) \in Advert
    /\ table[n].age <= Ttl => silence[Source(n, table[n])] <= table[n].age

\* A candidate is the configured upstream of its name, or a node that
\* advertised itself shortly before the probes were sent.
Known(q, n) ==
  IF n \in Static
  THEN candidate[q][n] = [url |-> StaticUrl[n], discovered |-> FALSE]
  ELSE /\ candidate[q][n].discovered = TRUE
       /\ Source(n, candidate[q][n]) \in Advert
       /\ silence[Source(n, candidate[q][n])] <= Ttl + wait[q]

KnownInv ==
  \A q \in Request :
    /\ wait[q] <= ProbeTimeout
    /\ stage[q] = "New" => wait[q] = 0
    /\ \A n \in Name : candidate[q][n] # None => Known(q, n)

\* The conditions that an answer proves a node to have had.
HealthSeen == [Pending |-> Condition, Ready |-> Ready, Bad |-> {"Down", "Loading"}]

CapabilitiesSeen ==
  [Pending |-> Condition, Fit |-> {"Fit", "Silent", "Loading"}, Open |-> {"Open"},
   Bad |-> {"Down", "Unfit"}]

Witness(q, n, conditions) == \E c \in conditions : c \in witnessed[q][Node(q, n)]

\* What a probe has answered, its node was while the request probed.
AnswerInv ==
  \A q \in Request :
    /\ stage[q] = "New" => probe[q] = NoProbes
    /\ \A n \in Name : candidate[q][n] # None =>
         /\ stage[q] \in {"Probing", "Weighing"}
         /\ stage[q] = "Probing" => condition[Node(q, n)] \in witnessed[q][Node(q, n)]
         /\ Witness(q, n, HealthSeen[probe[q][n].health])
         /\ Witness(q, n, CapabilitiesSeen[probe[q][n].capabilities])

Answered(q, n) == probe[q][n].health # "Pending" /\ probe[q][n].capabilities # "Pending"

\* min_by_key has kept a routable candidate as soon as it has passed one, and,
\* while the counters stand still, a lightest of those it has passed.
WeighInv ==
  \A q \in Request :
    /\ stage[q] \in {"New", "Probing"} => best[q] = NoBest /\ left[q] = {}
    /\ stage[q] \in {"Calling", "Abandoned"} => best[q].name # None
    /\ stage[q] = "Weighing" =>
         /\ \A n \in Candidates(q) : Answered(q, n)
         /\ \A n \in left[q] : n \in Candidates(q) /\ Routable(q, n)
         /\ best[q].name # None =>
              best[q].name \in Candidates(q) /\ Routable(q, best[q].name)
         /\ \A n \in Candidates(q) : Routable(q, n) => n \in left[q] \/ best[q].name # None

BestInv ==
  \A q \in Request :
    stage[q] = "Weighing" /\ best[q].name # None /\ disturbed[q] = FALSE =>
      /\ best[q].weight = Weight(q, best[q].name)
      /\ \A n \in Candidates(q) \ left[q] :
           Routable(q, n) => best[q].weight <= Weight(q, n)

Inv == TypeOK /\ TableInv /\ KnownInv /\ AnswerInv /\ WeighInv /\ BestInv

--------------------------------------------------------------------------------
(* Types. *)

LEMMA InitType == Init => TypeOK
<1> SUFFICES ASSUME Init PROVE TypeOK
  OBVIOUS
<1>1. 0 \in Nat /\ Ttl \in Nat /\ ProbeTimeout \in Nat /\ MaxChanges \in Nat
      /\ UnknownLoad \in Nat
  BY BoundAssumption, LoadAssumption
<1>2. NoProbe \in [health : Health, load : 0..UnknownLoad, capabilities : Capabilities]
  BY <1>1 DEF NoProbe, Health, Capabilities
<1>3. NoProbes \in [Name -> [health : Health, load : 0..UnknownLoad, capabilities : Capabilities]]
  BY <1>2 DEF NoProbes
<1>4. /\ condition \in [Url -> Condition]
      /\ changes \in 0..MaxChanges
      /\ table \in [Name -> [url : Url, age : 0..Expired] \union {None}]
      /\ silence \in [Advert -> 0..Long]
      /\ stage \in [Request -> Stage]
      /\ wait \in [Request -> Nat]
  BY <1>1, ConditionAssumption DEF Init, Expired, Long, Stage
<1>5. /\ candidate \in [Request -> [Name -> Upstream \union {None}]]
      /\ left \in [Request -> SUBSET Name]
      /\ witnessed \in [Request -> [Url -> SUBSET Condition]]
      /\ disturbed \in [Request -> BOOLEAN]
  BY DEF Init, NoCandidates, NothingWitnessed
<1>6. /\ best \in [Request -> [name : Name \union {None}, weight : Nat]]
      /\ running \in [Name -> Nat] /\ completed \in Nat /\ failed \in Nat
  BY <1>1 DEF Init, NoBest
<1>7. probe \in [Request -> [Name ->
        [health : Health, load : 0..UnknownLoad, capabilities : Capabilities]]]
  BY <1>3 DEF Init
<1> QED
  BY <1>4, <1>5, <1>6, <1>7 DEF TypeOK

\* The values the probes and the snapshot take are of the types declared.
LEMMA Values ==
  ASSUME TypeOK
  PROVE  /\ \A n \in Name : EffectiveUpstreams(n) \in Upstream \union {None}
         /\ \A u \in Url : Reported(u) \in 0..UnknownLoad
         /\ \A q \in Request : \A n \in Candidates(q) :
              candidate[q][n] \in Upstream /\ Node(q, n) \in Url
         /\ \A q \in Request, n \in Name : Weight(q, n) \in Nat
         /\ NoProbes \in [Name ->
              [health : Health, load : 0..UnknownLoad, capabilities : Capabilities]]
<1> USE DEF TypeOK
<1>1. ASSUME NEW n \in Name PROVE EffectiveUpstreams(n) \in Upstream \union {None}
  BY NameAssumption DEF EffectiveUpstreams, Live, Upstream
<1>2. ASSUME NEW u \in Url PROVE Reported(u) \in 0..UnknownLoad
  BY LoadAssumption DEF Reported
<1>3. ASSUME NEW q \in Request, NEW n \in Candidates(q)
      PROVE candidate[q][n] \in Upstream /\ Node(q, n) \in Url
  BY DEF Candidates, Node, Upstream
<1>4. ASSUME NEW q \in Request, NEW n \in Name PROVE Weight(q, n) \in Nat
  BY LoadAssumption DEF Weight
<1>5. NoProbes \in [Name ->
        [health : Health, load : 0..UnknownLoad, capabilities : Capabilities]]
  BY LoadAssumption DEF NoProbes, NoProbe, Health, Capabilities
<1> QED BY <1>1, <1>2, <1>3, <1>4, <1>5

LEMMA ForgetType ==
  ASSUME TypeOK, NEW q \in Request, Forget(q)
  PROVE  /\ wait' \in [Request -> Nat]
         /\ candidate' \in [Request -> [Name -> Upstream \union {None}]]
         /\ probe' \in [Request -> [Name ->
              [health : Health, load : 0..UnknownLoad, capabilities : Capabilities]]]
         /\ left' \in [Request -> SUBSET Name]
         /\ best' \in [Request -> [name : Name \union {None}, weight : Nat]]
         /\ witnessed' \in [Request -> [Url -> SUBSET Condition]]
<1>1. NoCandidates \in [Name -> Upstream \union {None}]
      /\ NothingWitnessed \in [Url -> SUBSET Condition]
  BY DEF NoCandidates, NothingWitnessed
<1> QED BY <1>1, Values DEF TypeOK, Forget

LEMMA DisturbType ==
  ASSUME NEW q \in Request, Disturb(q) PROVE disturbed' \in [Request -> BOOLEAN]
BY DEF Disturb

LEMMA TypeStep ==
  ASSUME TypeOK, [Next]_vars PROVE TypeOK'
<1> USE DEF nodes, heard, handler, counters, vars
<1>0. /\ Ttl \in Nat /\ ProbeTimeout \in Nat /\ MaxChanges \in Nat
      /\ UnknownLoad \in Nat
  BY BoundAssumption, LoadAssumption
<1>1. CASE UNCHANGED vars
  BY <1>1 DEF TypeOK
<1>2. ASSUME NEW u \in Url, NEW c \in Condition, Change(u, c) PROVE TypeOK'
  <2>1. changes' \in 0..MaxChanges /\ condition' \in [Url -> Condition]
    BY <1>0, <1>2 DEF Change, TypeOK
  <2>2. witnessed' \in [Request -> [Url -> SUBSET Condition]]
    BY <1>2 DEF Change, TypeOK
  <2> QED BY <1>2, <2>1, <2>2 DEF Change, TypeOK
<1>3. ASSUME NEW a \in Advert, Hear(a) PROVE TypeOK'
  <2>1. a.id \in Name /\ a.url \in Url
    BY NameAssumption
  <2>2. table' \in [Name -> [url : Url, age : 0..Expired] \union {None}]
    BY <1>0, <1>3, <2>1 DEF Hear, TypeOK, Expired
  <2>3. silence' \in [Advert -> 0..Long]
    BY <1>0, <1>3 DEF Hear, TypeOK, Long
  <2> QED BY <1>3, <2>2, <2>3 DEF Hear, TypeOK
<1>4. CASE Tick
  <2>1. table' \in [Name -> [url : Url, age : 0..Expired] \union {None}]
    BY <1>0, <1>4 DEF Tick, TypeOK, Expired, Lesser
  <2>2. silence' \in [Advert -> 0..Long]
    BY <1>0, <1>4 DEF Tick, TypeOK, Long, Lesser
  <2>3. wait' \in [Request -> Nat]
    BY <1>4 DEF Tick, TypeOK
  <2> QED BY <1>4, <2>1, <2>2, <2>3 DEF Tick, TypeOK
<1>5. ASSUME NEW q \in Request, Discover(q) PROVE TypeOK'
  <2>1. candidate' \in [Request -> [Name -> Upstream \union {None}]]
    BY <1>5, Values DEF Discover, TypeOK
  <2>2. witnessed' \in [Request -> [Url -> SUBSET Condition]]
    BY <1>5 DEF Discover, TypeOK
  <2>3. table' \in [Name -> [url : Url, age : 0..Expired] \union {None}]
    BY <1>5 DEF Discover, TypeOK
  <2> QED BY <1>5, <2>1, <2>2, <2>3 DEF Discover, TypeOK, Stage
<1>6. ASSUME NEW q \in Request, NEW n \in Name, HealthAnswers(q, n) PROVE TypeOK'
  <2>1. Reported(Node(q, n)) \in 0..UnknownLoad
    BY <1>6, Values DEF HealthAnswers, Probes
  <2>2. PICK h \in Health, l \in 0..UnknownLoad :
          probe' = [probe EXCEPT ![q][n] =
            [health |-> h, load |-> l, capabilities |-> @.capabilities]]
    BY <1>6, <2>1 DEF HealthAnswers, Health
  <2> QED BY <1>6, <2>2 DEF HealthAnswers, TypeOK
<1>7. ASSUME NEW q \in Request, NEW n \in Name, CapabilitiesAnswer(q, n) PROVE TypeOK'
  <2>1. Node(q, n) \in Url
    BY <1>7, Values DEF CapabilitiesAnswer, Probes
  <2>2. Capability(condition[Node(q, n)]) \in Capabilities
    BY <2>1 DEF TypeOK, Condition, Capability, Capabilities
  <2>3. PICK c \in Capabilities : probe' = [probe EXCEPT ![q][n] =
            [health |-> @.health, load |-> @.load, capabilities |-> c]]
    BY <1>7, <2>2 DEF CapabilitiesAnswer
  <2> QED BY <1>7, <2>3 DEF CapabilitiesAnswer, TypeOK
<1>8. ASSUME NEW q \in Request, NEW n \in Name, Weigh(q, n) PROVE TypeOK'
  <2>1. Weight(q, n) \in Nat
    BY Values
  <2>2. best' \in [Request -> [name : Name \union {None}, weight : Nat]]
    BY <1>8, <2>1 DEF Weigh, TypeOK
  <2> QED BY <1>8, <2>2 DEF Weigh, TypeOK
<1>9. ASSUME NEW q \in Request, Filter(q) PROVE TypeOK'
  BY <1>9 DEF Filter, TypeOK, Stage, Candidates
<1>10. ASSUME NEW q \in Request, Refuse(q) PROVE TypeOK'
  BY <1>10, ForgetType DEF Refuse, TypeOK, Stage
<1>11. ASSUME NEW q \in Request, Call(q) PROVE TypeOK'
  <2>1. running' \in [Name -> Nat]
    BY <1>11 DEF Call, TypeOK
  <2> QED BY <1>11, <2>1, ForgetType, DisturbType DEF Call, TypeOK, Stage
<1>12. ASSUME NEW q \in Request, NEW success \in BOOLEAN, Finish(q, success) PROVE TypeOK'
  <2>1. running' \in [Name -> Nat]
    <3> DEFINE b == best[q].name
               r == IF running[b] > 0 THEN running[b] - 1 ELSE 0
    <3>1. running' = [running EXCEPT ![b] = r]
      BY <1>12 DEF Finish
    <3>2. b \in Name => r \in Nat
      <4>1. b \in Name => running[b] \in Nat
        BY DEF TypeOK
      <4> QED BY <4>1
    <3> QED BY <3>1, <3>2 DEF TypeOK
  <2>3. completed' \in Nat /\ failed' \in Nat
    <3>1. completed + 1 \in Nat /\ failed + 1 \in Nat
      BY DEF TypeOK
    <3>2. completed' \in {completed, completed + 1} /\ failed' \in {failed, failed + 1}
      BY <1>12 DEF Finish
    <3> QED BY <3>1, <3>2 DEF TypeOK
  <2>2. stage' \in [Request -> Stage]
    BY <1>12 DEF Finish, TypeOK, Stage
  <2> QED BY <1>12, <2>1, <2>2, <2>3, ForgetType, DisturbType DEF Finish, TypeOK
<1>13. ASSUME NEW q \in Request, Drop(q) PROVE TypeOK'
  BY <1>13, ForgetType DEF Drop, TypeOK, Stage
<1> QED
  BY <1>1, <1>2, <1>3, <1>4, <1>5, <1>6, <1>7, <1>8, <1>9, <1>10, <1>11, <1>12, <1>13
     DEF Next, Handler

\* Every reachable state is well typed.
THEOREM TypeCorrect == Spec => []TypeOK
<1>1. Init => TypeOK
  BY InitType
<1>2. TypeOK /\ [Next]_vars => TypeOK'
  BY TypeStep
<1> QED BY <1>1, <1>2, PTL DEF Spec

--------------------------------------------------------------------------------
(* What the steps have in common. *)

\* The environment leaves every request where it is.
Outside == \/ \E u \in Url, c \in Condition : Change(u, c)
           \/ \E a \in Advert : Hear(a)
           \/ Tick

\* A request that is refused, called, finished or dropped forgets its probes.
Ends(q) ==
  /\ Forget(q)
  /\ stage[q] \in {"Probing", "Weighing", "Calling"}
  /\ \E s \in Stage \ {"New", "Probing", "Weighing"} :
       /\ stage' = [stage EXCEPT ![q] = s]
       /\ s \in {"Calling", "Abandoned"} => best[q].name # None \/ stage[q] = "Calling"
  /\ UNCHANGED <<nodes, heard>>
  /\ \/ UNCHANGED <<running, disturbed>>
     \/ UNCHANGED running /\ disturbed' = [disturbed EXCEPT ![q] = FALSE]
     \/ Disturb(q)

ProbeAnswers(q) == \E n \in Name : HealthAnswers(q, n) \/ CapabilitiesAnswer(q, n)

Weighs(q) == \E n \in Name : Weigh(q, n)

LEMMA Kinds ==
  ASSUME TypeOK, NEW q \in Request, Handler(q)
  PROVE  Discover(q) \/ ProbeAnswers(q) \/ Filter(q) \/ Weighs(q) \/ Ends(q)
<1> USE DEF counters, nodes, heard
<1>1. CASE Refuse(q)
  <2>1. "Refused" \in Stage \ {"New", "Probing", "Weighing"}
    BY DEF Stage
  <2>2. stage' = [stage EXCEPT ![q] = "Refused"] /\ stage[q] = "Weighing"
    BY <1>1 DEF Refuse
  <2>3. UNCHANGED running /\ disturbed' = [disturbed EXCEPT ![q] = FALSE]
    BY <1>1 DEF Refuse
  <2> QED BY <1>1, <2>1, <2>2, <2>3 DEF Refuse, Ends
<1>2. CASE Call(q)
  BY <1>2 DEF Call, Ends, Stage
<1>3. ASSUME NEW success \in BOOLEAN, Finish(q, success) PROVE Ends(q)
  <2>1. PICK s \in {"Completed", "Failed"} : stage' = [stage EXCEPT ![q] = s]
    BY <1>3 DEF Finish
  <2> QED BY <1>3, <2>1 DEF Finish, Ends, Stage
<1>4. CASE Drop(q)
  <2>1. PICK s \in {"Dropped", "Abandoned"} :
          /\ stage' = [stage EXCEPT ![q] = s]
          /\ s = "Abandoned" => stage[q] = "Calling"
    BY <1>4 DEF Drop
  <2> QED BY <1>4, <2>1 DEF Drop, Ends, Stage
<1> QED
  BY <1>1, <1>2, <1>3, <1>4 DEF Handler, ProbeAnswers, Weighs

\* A handler touches nothing of the other requests.
LEMMA Others ==
  ASSUME TypeOK, NEW q \in Request, Handler(q), NEW r \in Request, r # q
  PROVE  /\ stage'[r] = stage[r] /\ wait'[r] = wait[r]
         /\ candidate'[r] = candidate[r] /\ probe'[r] = probe[r]
         /\ left'[r] = left[r] /\ best'[r] = best[r]
         /\ witnessed'[r] = witnessed[r]
<1> USE DEF TypeOK
<1>1. CASE Discover(q)
  BY <1>1 DEF Discover
<1>2. CASE ProbeAnswers(q)
  BY <1>2 DEF ProbeAnswers, HealthAnswers, CapabilitiesAnswer
<1>3. CASE Filter(q)
  BY <1>3 DEF Filter
<1>4. CASE Weighs(q)
  BY <1>4 DEF Weighs, Weigh
<1>5. CASE Ends(q)
  BY <1>5 DEF Ends, Forget
<1> QED
  BY <1>1, <1>2, <1>3, <1>4, <1>5, Kinds

--------------------------------------------------------------------------------
(* The table of discovered nodes and the snapshots taken of it. *)

LEMMA TableStep ==
  ASSUME Inv, [Next]_vars PROVE TableInv'
<1> USE DEF Inv, TypeOK, TableInv, Source
<1>0. Ttl \in Nat /\ ProbeTimeout \in Nat
  BY BoundAssumption
<1>1. CASE UNCHANGED <<table, silence>>
  BY <1>1
<1>2. ASSUME NEW a \in Advert, Hear(a) PROVE TableInv'
  <2>1. a.id \in Name /\ a = [id |-> a.id, url |-> a.url]
    BY NameAssumption
  <2>2. \A n \in Name : table'[n] = IF n = a.id THEN [url |-> a.url, age |-> 0] ELSE table[n]
    BY <1>2 DEF Hear
  <2>3. silence'[a] = 0 /\ \A x \in Advert : x # a => silence'[x] = silence[x]
    BY <1>2 DEF Hear
  <2>4. ASSUME NEW n \in Name, table'[n] # None
        PROVE  /\ [id |-> n, url |-> table'[n].url] \in Advert
               /\ table'[n].age <= Ttl =>
                    silence'[[id |-> n, url |-> table'[n].url]] <= table'[n].age
    <3>1. CASE n = a.id
      <4>1. [id |-> n, url |-> table'[n].url] = a /\ table'[n].age = 0
        BY <2>1, <2>2, <3>1
      <4> QED BY <2>3, <4>1
    <3>2. CASE n # a.id
      <4>1. [id |-> n, url |-> table'[n].url] # a
        BY <3>2
      <4>2. table'[n] = table[n]
        BY <2>2, <3>2
      <4> QED BY <2>3, <2>4, <4>1, <4>2
    <3> QED BY <3>1, <3>2
  <2> QED BY <2>4
<1>3. CASE Tick
  <2>1. ASSUME NEW n \in Name, table'[n] # None
        PROVE  /\ [id |-> n, url |-> table'[n].url] \in Advert
               /\ table'[n].age <= Ttl =>
                    silence'[[id |-> n, url |-> table'[n].url]] <= table'[n].age
    <3>1. table[n] # None
      BY <1>3, <2>1 DEF Tick
    <3>2. table'[n].url = table[n].url /\ table'[n].age = Lesser(table[n].age + 1, Expired)
      BY <1>3, <3>1 DEF Tick
    <3> DEFINE x == [id |-> n, url |-> table[n].url]
    <3>3. x \in Advert /\ silence'[x] = Lesser(silence[x] + 1, Long)
      BY <1>3, <3>1 DEF Tick
    <3>4. silence[x] \in Nat /\ table[n].age \in Nat
      BY <1>0, <3>1, <3>3
    <3>5. x = [id |-> n, url |-> table'[n].url]
      BY <3>2
    <3> HIDE DEF x
    <3>6. table'[n].age <= Ttl => table'[n].age = table[n].age + 1 /\ table[n].age <= Ttl
      BY <1>0, <3>2, <3>4 DEF Lesser, Expired
    <3>7. silence'[x] <= silence[x] + 1
      BY <1>0, <3>3, <3>4 DEF Lesser, Long
    <3>8. table[n].age <= Ttl => silence[x] <= table[n].age
      BY <3>1 DEF x
    <3>9. silence'[x] \in Nat
      BY <1>0, <3>3, <3>4 DEF Lesser, Long
    <3> QED BY <3>3, <3>4, <3>5, <3>6, <3>7, <3>8, <3>9
  <2> QED BY <2>1
<1>4. ASSUME NEW q \in Request, Discover(q) PROVE TableInv'
  <2>1. \A n \in Name : table'[n] # None => table'[n] = table[n]
    BY <1>4 DEF Discover
  <2>2. silence' = silence
    BY <1>4 DEF Discover
  <2> QED BY <2>1, <2>2
<1>5. ASSUME NEW q \in Request, Handler(q), ~Discover(q) PROVE UNCHANGED <<table, silence>>
  BY <1>5, Kinds DEF Ends, ProbeAnswers, HealthAnswers, CapabilitiesAnswer, Filter, Weighs, Weigh, heard
<1>6. ASSUME NEW u \in Url, NEW c \in Condition, Change(u, c) PROVE UNCHANGED <<table, silence>>
  BY <1>6 DEF Change, heard
<1> QED
  BY <1>1, <1>2, <1>3, <1>4, <1>5, <1>6 DEF Next, vars, heard

LEMMA KnownStep ==
  ASSUME Inv, [Next]_vars PROVE KnownInv'
<1> USE DEF Inv, TypeOK, KnownInv, Known, Source
<1>0. Ttl \in Nat /\ ProbeTimeout \in Nat
  BY BoundAssumption
<1>1. CASE UNCHANGED <<stage, wait, candidate, silence>>
  BY <1>1
<1>2. ASSUME NEW a \in Advert, Hear(a) PROVE KnownInv'
  <2>1. \A x \in Advert : silence'[x] <= silence[x]
    BY <1>2 DEF Hear
  <2>2. UNCHANGED <<stage, wait, candidate>>
    BY <1>2 DEF Hear, handler
  <2>3. \A x \in Advert : silence'[x] \in Nat /\ silence[x] \in Nat
    BY <1>2 DEF Hear
  <2>4. \A q \in Request : Ttl + wait[q] \in Nat
    BY <1>0
  <2> QED BY <2>1, <2>2, <2>3, <2>4
<1>3. CASE Tick
  <2>1. \A x \in Advert : silence'[x] <= silence[x] + 1 /\ silence'[x] \in Nat /\ silence[x] \in Nat
    BY <1>0, <1>3 DEF Tick, Lesser, Long
  <2>2. UNCHANGED <<stage, candidate>>
    BY <1>3 DEF Tick
  <2>3. ASSUME NEW q \in Request
        PROVE  wait'[q] <= ProbeTimeout /\ (stage'[q] = "New" => wait'[q] = 0)
    BY <1>0, <1>3 DEF Tick
  <2>4. ASSUME NEW q \in Request, NEW n \in Name, candidate[q][n] # None, n \notin Static
        PROVE  silence'[[id |-> n, url |-> candidate[q][n].url]] <= Ttl + wait'[q]
    <3>1. stage[q] = "Probing"
      BY <1>3, <2>4 DEF Tick, AnswerInv
    <3>2. wait'[q] = wait[q] + 1
      BY <1>3, <3>1 DEF Tick
    <3> DEFINE x == [id |-> n, url |-> candidate[q][n].url]
    <3>3. x \in Advert /\ silence[x] <= Ttl + wait[q]
      BY <2>4
    <3>4. wait[q] \in Nat
      OBVIOUS
    <3> HIDE DEF x
    <3>5. silence'[x] <= Ttl + wait'[q]
      BY <1>0, <2>1, <3>2, <3>3, <3>4
    <3> QED BY <3>5 DEF x
  <2> QED BY <2>2, <2>3, <2>4
<1>4. ASSUME NEW q \in Request, Discover(q) PROVE KnownInv'
  <2>1. \A r \in Request : r # q => candidate'[r] = candidate[r] /\ stage'[r] = stage[r]
    BY <1>4 DEF Discover
  <2>2. UNCHANGED <<wait, silence>>
    BY <1>4 DEF Discover
  <2>3. stage[q] = "New" /\ stage'[q] = "Probing" /\ wait[q] = 0
    BY <1>4 DEF Discover
  <2>4. ASSUME NEW n \in Name, candidate'[q][n] # None PROVE Known(q, n)'
    <3>1. candidate'[q][n] = EffectiveUpstreams(n)
      BY <1>4 DEF Discover
    <3>2. CASE n \in Static
      BY <3>1, <3>2 DEF EffectiveUpstreams
    <3>3. CASE n \notin Static
      <4>1. Live(n) /\ candidate'[q][n] = [url |-> table[n].url, discovered |-> TRUE]
        BY <2>4, <3>1, <3>3 DEF EffectiveUpstreams
      <4> DEFINE x == [id |-> n, url |-> table[n].url]
      <4>2. x \in Advert /\ silence[x] <= table[n].age /\ table[n].age <= Ttl
        BY <4>1 DEF Live, TableInv
      <4>3. silence[x] \in Nat /\ table[n].age \in Nat
        BY <4>1, <4>2 DEF Live
      <4>4. silence[x] <= Ttl + wait[q]
        BY <1>0, <2>3, <4>2, <4>3
      <4> QED BY <2>2, <3>3, <4>1, <4>2, <4>4
    <3> QED BY <3>2, <3>3
  <2>5. ASSUME NEW r \in Request, r # q, NEW n \in Name, candidate'[r][n] # None
        PROVE Known(r, n)'
    BY <2>1, <2>2, <2>5
  <2> QED BY <2>1, <2>2, <2>3, <2>4, <2>5
<1>5. ASSUME NEW q \in Request, ProbeAnswers(q) \/ Filter(q) \/ Weighs(q) PROVE KnownInv'
  <2>1. UNCHANGED <<wait, candidate, silence>>
    BY <1>5 DEF ProbeAnswers, HealthAnswers, CapabilitiesAnswer, Filter, Weighs, Weigh, heard
  <2>2. \A r \in Request : stage'[r] = "New" => stage[r] = "New"
    BY <1>5 DEF ProbeAnswers, HealthAnswers, CapabilitiesAnswer, Filter, Weighs, Weigh
  <2> QED BY <2>1, <2>2
<1>6. ASSUME NEW q \in Request, Handler(q), Ends(q) PROVE KnownInv'
  <2>1. silence' = silence
    BY <1>6 DEF Ends, heard
  <2>2. wait'[q] = 0 /\ candidate'[q] = NoCandidates
    BY <1>6 DEF Ends, Forget
  <2>3. \A r \in Request : r # q =>
          wait'[r] = wait[r] /\ candidate'[r] = candidate[r] /\ stage'[r] = stage[r]
    BY <1>6, Others
  <2>4. \A n \in Name : candidate'[q][n] = None
    BY <2>2 DEF NoCandidates
  <2>5. stage'[q] # "New" \/ wait'[q] = 0
    BY <2>2
  <2>6. ASSUME NEW r \in Request, r # q, NEW n \in Name, candidate'[r][n] # None
        PROVE Known(r, n)'
    BY <2>1, <2>3, <2>6
  <2>7. ASSUME NEW r \in Request PROVE wait'[r] <= ProbeTimeout
    <3>1. CASE r = q
      BY <1>0, <2>2, <3>1
    <3>2. CASE r # q
      BY <2>3, <3>2
    <3> QED BY <3>1, <3>2
  <2> QED BY <2>2, <2>3, <2>4, <2>5, <2>6, <2>7
<1>7. ASSUME NEW u \in Url, NEW c \in Condition, Change(u, c) PROVE KnownInv'
  BY <1>7 DEF Change, heard, handler
<1> QED
  BY <1>1, <1>2, <1>3, <1>4, <1>5, <1>6, <1>7, Kinds DEF Next, vars, heard, handler

--------------------------------------------------------------------------------
(* What the probes prove of the nodes. *)

LEMMA Proofs ==
  ASSUME NEW c \in Condition
  PROVE  /\ c \in HealthSeen["Pending"] /\ c \in CapabilitiesSeen["Pending"]
         /\ c \in HealthSeen[IF c \in Ready THEN "Ready" ELSE "Bad"]
         /\ c \in CapabilitiesSeen[Capability(c)]
BY DEF Condition, Ready, HealthSeen, CapabilitiesSeen, Capability

LEMMA AnswerStep ==
  ASSUME Inv, [Next]_vars PROVE AnswerInv'
<1> USE DEF Inv, TypeOK, AnswerInv, Witness, Node
<1>0. \A q \in Request, n \in Name : candidate[q][n] # None => candidate[q][n].url \in Url
  BY DEF Upstream
<1>1. CASE UNCHANGED <<stage, candidate, probe, witnessed, condition>>
  BY <1>1
<1>2. ASSUME NEW u \in Url, NEW c \in Condition, Change(u, c) PROVE AnswerInv'
  <2>1. UNCHANGED <<stage, candidate, probe>>
    BY <1>2 DEF Change, handler
  <2>2. \A q \in Request, x \in Url : witnessed[q][x] \subseteq witnessed'[q][x]
    BY <1>2 DEF Change
  <2>3. \A q \in Request, x \in Url :
          stage[q] = "Probing" /\ condition[x] \in witnessed[q][x]
            => condition'[x] \in witnessed'[q][x]
    BY <1>2 DEF Change
  <2> HIDE DEF TypeOK
  <2> QED BY <1>0, <2>1, <2>2, <2>3
\* A step of the handler of q, seen from the other requests and from q itself.
<1>3. ASSUME NEW q \in Request, Handler(q), condition' = condition,
             stage'[q] = "New" => probe'[q] = NoProbes,
             \A n \in Name : candidate'[q][n] # None =>
               /\ stage'[q] \in {"Probing", "Weighing"}
               /\ stage'[q] = "Probing" =>
                    condition[candidate'[q][n].url] \in witnessed'[q][candidate'[q][n].url]
               /\ Witness(q, n, HealthSeen[probe[q][n].health])'
               /\ Witness(q, n, CapabilitiesSeen[probe[q][n].capabilities])'
      PROVE  AnswerInv'
  <2>1. \A r \in Request : r # q =>
          /\ stage'[r] = stage[r] /\ candidate'[r] = candidate[r] /\ probe'[r] = probe[r]
          /\ witnessed'[r] = witnessed[r]
    BY <1>3, Others
  <2> HIDE DEF TypeOK
  <2> QED BY <1>3, <2>1
<1>4. ASSUME NEW q \in Request, Handler(q), Discover(q) PROVE AnswerInv'
  <2>1. stage[q] = "New" /\ stage'[q] = "Probing" /\ probe'[q] = NoProbes
        /\ condition' = condition
    BY <1>4 DEF Discover, nodes
  <2>2. \A x \in Url : witnessed'[q][x] = {condition[x]}
    BY <1>4 DEF Discover
  <2>3. ASSUME NEW n \in Name, candidate'[q][n] # None
        PROVE  candidate'[q][n].url \in Url /\ probe'[q][n] = NoProbe
    <3>1. candidate'[q][n] = EffectiveUpstreams(n)
      BY <1>4 DEF Discover
    <3> QED BY <2>1, <2>3, <3>1, Values DEF Upstream, NoProbes
  <2>4. ASSUME NEW n \in Name, candidate'[q][n] # None
        PROVE  /\ condition[candidate'[q][n].url] \in witnessed'[q][candidate'[q][n].url]
               /\ Witness(q, n, HealthSeen[probe[q][n].health])'
               /\ Witness(q, n, CapabilitiesSeen[probe[q][n].capabilities])'
    <3> DEFINE x == candidate'[q][n].url
    <3>1. x \in Url /\ condition[x] \in Condition /\ condition[x] \in witnessed'[q][x]
      BY <2>2, <2>3, <2>4
    <3>2. probe'[q][n].health = "Pending" /\ probe'[q][n].capabilities = "Pending"
      BY <2>3, <2>4 DEF NoProbe
    <3> QED BY <3>1, <3>2, Proofs
  <2> QED BY <1>3, <1>4, <2>1, <2>4
<1>5. ASSUME NEW q \in Request, NEW n \in Name, Handler(q),
             HealthAnswers(q, n) \/ CapabilitiesAnswer(q, n)
      PROVE  AnswerInv'
  <2> DEFINE u == candidate[q][n].url
  <2>1. UNCHANGED <<condition, stage, candidate, witnessed>> /\ stage[q] = "Probing"
    BY <1>5 DEF HealthAnswers, CapabilitiesAnswer, nodes, Probes
  <2>2. u \in Url /\ condition[u] \in Condition /\ condition[u] \in witnessed[q][u]
    BY <1>0, <1>5 DEF HealthAnswers, CapabilitiesAnswer, Probes, Candidates
  <2>3. \A m \in Name : m # n => probe'[q][m] = probe[q][m]
    BY <1>5 DEF HealthAnswers, CapabilitiesAnswer
  <2>4. /\ \/ probe'[q][n].health = probe[q][n].health
           \/ probe'[q][n].health = IF condition[u] \in Ready THEN "Ready" ELSE "Bad"
        /\ \/ probe'[q][n].capabilities = probe[q][n].capabilities
           \/ probe'[q][n].capabilities = Capability(condition[u])
    BY <1>5 DEF HealthAnswers, CapabilitiesAnswer
  <2>5. candidate[q][n] # None
    BY <1>5 DEF HealthAnswers, CapabilitiesAnswer, Probes, Candidates
  <2>6. Witness(q, n, HealthSeen[probe[q][n].health])'
    BY <2>1, <2>2, <2>4, <2>5, Proofs
  <2>7. Witness(q, n, CapabilitiesSeen[probe[q][n].capabilities])'
    BY <2>1, <2>2, <2>4, <2>5, Proofs
  <2> QED BY <1>3, <1>5, <2>1, <2>3, <2>6, <2>7
<1>6. ASSUME NEW q \in Request, Handler(q), Filter(q) \/ Weighs(q) PROVE AnswerInv'
  <2>1. UNCHANGED <<condition, candidate, probe, witnessed>> /\ stage'[q] = "Weighing"
    BY <1>6 DEF Filter, Weighs, Weigh, nodes
  <2> QED BY <1>3, <1>6, <2>1
<1>7. ASSUME NEW q \in Request, Handler(q), Ends(q) PROVE AnswerInv'
  <2>1. condition' = condition /\ stage'[q] # "New"
    BY <1>7 DEF Ends, nodes
  <2>2. \A n \in Name : candidate'[q][n] = None
    BY <1>7 DEF Ends, Forget, NoCandidates
  <2> QED BY <1>3, <1>7, <2>1, <2>2
<1>8. CASE Tick \/ \E a \in Advert : Hear(a)
  BY <1>1, <1>8 DEF Tick, Hear, nodes, handler
<1>9. ASSUME NEW q \in Request, Handler(q) PROVE AnswerInv'
  BY <1>4, <1>5, <1>6, <1>7, <1>9, Kinds DEF ProbeAnswers
<1> QED
  BY <1>1, <1>2, <1>8, <1>9 DEF Next, vars, nodes, handler

--------------------------------------------------------------------------------
(* The filter and the minimum. *)

\* What a probe decides does not change while the request weighs.
LEMMA WeighStep ==
  ASSUME Inv, [Next]_vars PROVE WeighInv'
<1> USE DEF Inv, TypeOK, WeighInv, Answered, Routable, Candidates
<1>1. CASE UNCHANGED <<stage, candidate, probe, left, best>>
  BY <1>1
<1>2. ASSUME NEW q \in Request, Handler(q),
             stage'[q] \in {"New", "Probing"} => best'[q] = NoBest /\ left'[q] = {},
             stage'[q] \in {"Calling", "Abandoned"} => best'[q].name # None,
             stage'[q] = "Weighing" =>
               /\ candidate'[q] = candidate[q] /\ probe'[q] = probe[q]
               /\ \A n \in Candidates(q) : Answered(q, n)
               /\ \A n \in left'[q] : n \in Candidates(q) /\ Routable(q, n)
               /\ best'[q].name # None =>
                    best'[q].name \in Candidates(q) /\ Routable(q, best'[q].name)
               /\ \A n \in Candidates(q) : Routable(q, n) => n \in left'[q] \/ best'[q].name # None
      PROVE  WeighInv'
  <2>1. \A r \in Request : r # q =>
          /\ stage'[r] = stage[r] /\ candidate'[r] = candidate[r] /\ probe'[r] = probe[r]
          /\ left'[r] = left[r] /\ best'[r] = best[r]
    BY <1>2, Others
  <2> DEFINE Part(r) ==
        /\ stage[r] \in {"New", "Probing"} => best[r] = NoBest /\ left[r] = {}
        /\ stage[r] \in {"Calling", "Abandoned"} => best[r].name # None
        /\ stage[r] = "Weighing" =>
             /\ \A n \in Candidates(r) : Answered(r, n)
             /\ \A n \in left[r] : n \in Candidates(r) /\ Routable(r, n)
             /\ best[r].name # None =>
                  best[r].name \in Candidates(r) /\ Routable(r, best[r].name)
             /\ \A n \in Candidates(r) : Routable(r, n) => n \in left[r] \/ best[r].name # None
  <2>2. ASSUME NEW r \in Request, r # q PROVE Part(r)'
    <3>1. Part(r)
      OBVIOUS
    <3> QED BY <2>1, <2>2, <3>1
  <2>3. Part(q)'
    BY <1>2
  <2> HIDE DEF Part
  <2>4. \A r \in Request : Part(r)'
    BY <2>2, <2>3
  <2> QED BY <2>4 DEF Part
<1>3. ASSUME NEW q \in Request, Handler(q), Discover(q) PROVE WeighInv'
  <2>1. stage[q] = "New" /\ stage'[q] = "Probing" /\ best' = best /\ left' = left
    BY <1>3 DEF Discover
  <2> QED BY <1>2, <1>3, <2>1
<1>4. ASSUME NEW q \in Request, Handler(q), ProbeAnswers(q) PROVE WeighInv'
  <2>1. stage[q] = "Probing" /\ stage'[q] = "Probing" /\ best' = best /\ left' = left
    BY <1>4 DEF ProbeAnswers, HealthAnswers, CapabilitiesAnswer, Probes
  <2> QED BY <1>2, <1>4, <2>1
<1>5. ASSUME NEW q \in Request, Handler(q), Filter(q) PROVE WeighInv'
  <2>1. stage[q] = "Probing" /\ stage'[q] = "Weighing" /\ best'[q] = NoBest
        /\ candidate' = candidate /\ probe' = probe
    BY <1>5 DEF Filter
  <2>2. left'[q] = {n \in Candidates(q) : Routable(q, n)}
    BY <1>5 DEF Filter
  <2>3. \A n \in Candidates(q) : Answered(q, n)
    BY <1>5 DEF Filter
  <2>4. best'[q].name = None
    BY <2>1 DEF NoBest
  <2> QED BY <1>2, <1>5, <2>1, <2>2, <2>3, <2>4
<1>6. ASSUME NEW q \in Request, Handler(q), NEW n \in Name, Weigh(q, n) PROVE WeighInv'
  <2>1. /\ stage[q] = "Weighing" /\ stage'[q] = "Weighing" /\ n \in left[q]
        /\ left'[q] = left[q] \ {n} /\ candidate' = candidate /\ probe' = probe
    BY <1>6 DEF Weigh
  <2>2. best'[q].name \in {best[q].name, n} /\ best'[q].name # None
    BY <1>6, NameAssumption DEF Weigh
  <2> QED BY <1>2, <1>6, <2>1, <2>2
<1>7. ASSUME NEW q \in Request, Handler(q), Ends(q) PROVE WeighInv'
  <2>1. /\ stage'[q] \notin {"New", "Probing", "Weighing"} /\ best' = best
        /\ stage'[q] \in {"Calling", "Abandoned"} => best[q].name # None
    BY <1>7 DEF Ends, Forget
  <2> QED BY <1>2, <1>7, <2>1
<1>8. CASE Outside
  BY <1>1, <1>8 DEF Outside, Change, Hear, Tick, handler
<1> QED
  BY <1>1, <1>3, <1>4, <1>5, <1>6, <1>7, <1>8, Kinds DEF Next, Outside, Weighs, vars, handler

\* Between two counters of other requests that move, the minimum is exact.
LEMMA BestStep ==
  ASSUME Inv, [Next]_vars PROVE BestInv'
<1> USE DEF Inv, TypeOK, BestInv, Routable, Candidates
<1>1. CASE UNCHANGED <<stage, candidate, probe, left, best, running, disturbed>>
  BY <1>1 DEF Weight
<1>2. ASSUME NEW q \in Request, Handler(q), NEW r \in Request, r # q,
             running' = running, disturbed'[r] = disturbed[r],
             stage'[r] = "Weighing", best'[r].name # None, disturbed'[r] = FALSE
      PROVE  /\ best'[r].weight = Weight(r, best[r].name)'
             /\ \A n \in Candidates(r)' \ left'[r] :
                  Routable(r, n)' => best'[r].weight <= Weight(r, n)'
  <2>1. /\ stage'[r] = stage[r] /\ candidate'[r] = candidate[r] /\ probe'[r] = probe[r]
        /\ left'[r] = left[r] /\ best'[r] = best[r]
    BY <1>2, Others
  <2> QED BY <1>2, <2>1 DEF Weight
<1>3. ASSUME NEW q \in Request, Handler(q), running' = running,
             \A r \in Request : r # q => disturbed'[r] = disturbed[r],
             stage'[q] # "Weighing" \/ best'[q].name = None
      PROVE  BestInv'
  BY <1>2, <1>3
<1>8. ASSUME NEW q \in Request, Handler(q), running' = running, disturbed' = disturbed,
             disturbed'[q] = FALSE =>
               /\ best'[q].weight = Weight(q, best[q].name)'
               /\ \A n \in Candidates(q)' \ left'[q] :
                    Routable(q, n)' => best'[q].weight <= Weight(q, n)'
      PROVE  BestInv'
  BY <1>2, <1>8
<1>4. ASSUME NEW q \in Request, Handler(q), Discover(q) \/ ProbeAnswers(q) \/ Filter(q) PROVE BestInv'
  <2>1. UNCHANGED <<best, running, disturbed>>
    BY <1>4 DEF Discover, ProbeAnswers, HealthAnswers, CapabilitiesAnswer, Filter, counters
  <2>2. stage[q] \in {"New", "Probing"}
    BY <1>4 DEF Discover, ProbeAnswers, HealthAnswers, CapabilitiesAnswer, Filter, Probes
  <2>3. best[q].name = None
    BY <2>2 DEF WeighInv, NoBest
  <2> QED BY <1>3, <1>4, <2>1, <2>3
<1>5. ASSUME NEW q \in Request, Handler(q), NEW n \in Name, Weigh(q, n) PROVE BestInv'
  <2>1. /\ UNCHANGED <<stage, running, disturbed, candidate, probe>>
        /\ left'[q] = left[q] \ {n} /\ stage[q] = "Weighing"
    BY <1>5 DEF Weigh, counters
  <2>2. \A m \in Name : Weight(q, m) \in Nat /\ Weight(q, m)' = Weight(q, m)
    BY <2>1, Values DEF Weight
  <2>5. \A m : m \in Candidates(q)' <=> m \in Candidates(q)
    BY <2>1
  <2>6. \A m \in Name : Routable(q, m)' <=> Routable(q, m)
    BY <2>1
  <2>7. ASSUME best'[q].name \in Name,
               disturbed'[q] = FALSE =>
                 /\ best'[q].weight = Weight(q, best'[q].name)
                 /\ \A m \in Candidates(q) \ left'[q] :
                      Routable(q, m) => best'[q].weight <= Weight(q, m)
        PROVE  BestInv'
    <3>1. disturbed'[q] = FALSE => best'[q].weight = Weight(q, best[q].name)'
      BY <2>1, <2>7 DEF Weight
    <3>2. ASSUME disturbed'[q] = FALSE, NEW m \in Candidates(q)' \ left'[q], Routable(q, m)'
          PROVE  best'[q].weight <= Weight(q, m)'
      <4>1. m \in Candidates(q) \ left'[q] /\ Routable(q, m)
        BY <2>1, <3>2
      <4>2. best'[q].weight <= Weight(q, m)
        BY <2>7, <3>2, <4>1
      <4> QED BY <2>1, <4>2 DEF Weight
    <3> HIDE DEF Candidates, Routable, BestInv, TypeOK
    <3>3. running' = running /\ disturbed' = disturbed
      BY <2>1
    <3> QED BY <1>5, <1>8, <3>1, <3>2, <3>3
  <2>3. CASE best[q].name = None \/ Weight(q, n) < best[q].weight
    <3>1. best'[q] = [name |-> n, weight |-> Weight(q, n)]
      BY <1>5, <2>3 DEF Weigh
    <3>2. \A m \in Candidates(q) : Routable(q, m) /\ m \notin left[q] => best[q].name # None
      BY <2>1 DEF WeighInv
    <3>3. best[q].weight \in Nat
      OBVIOUS
    <3>4. ASSUME disturbed'[q] = FALSE, NEW m \in Candidates(q) \ left'[q], Routable(q, m)
          PROVE  Weight(q, n) <= Weight(q, m)
      <4>1. CASE m = n
        BY <2>2, <4>1
      <4>2. CASE m # n
        <5>1. best[q].name # None /\ m \notin left[q]
          BY <2>1, <3>2, <3>4, <4>2
        <5>2. best[q].weight <= Weight(q, m)
          BY <2>1, <3>4, <5>1
        <5> QED BY <2>2, <2>3, <3>3, <5>1, <5>2
      <4> QED BY <4>1, <4>2
    <3>5. best'[q].name = n /\ best'[q].weight = Weight(q, n)
      BY <3>1
    <3> HIDE DEF Candidates, Routable, BestInv, TypeOK
    <3> QED BY <2>7, <3>4, <3>5
  <2>4. CASE ~(best[q].name = None \/ Weight(q, n) < best[q].weight)
    <3>1. best'[q] = best[q]
      BY <1>5, <2>4 DEF Weigh
    <3>2. best[q].weight \in Nat
      OBVIOUS
    <3>3. best[q].weight <= Weight(q, n)
      BY <2>2, <2>4, <3>2
    <3>4. ASSUME disturbed'[q] = FALSE
          PROVE  /\ best[q].weight = Weight(q, best[q].name)
                 /\ \A m \in Candidates(q) \ left'[q] :
                      Routable(q, m) => best[q].weight <= Weight(q, m)
      BY <2>1, <2>4, <3>3, <3>4
    <3>5. best[q].name \in Name
      BY <2>4
    <3> QED BY <2>7, <3>1, <3>4, <3>5
  <2> QED BY <2>3, <2>4
<1>6. ASSUME NEW q \in Request, Handler(q), Ends(q) PROVE BestInv'
  <2>1. stage'[q] # "Weighing"
    BY <1>6 DEF Ends
  <2>2. CASE running' = running /\ \A r \in Request : r # q => disturbed'[r] = disturbed[r]
    BY <1>3, <1>6, <2>1, <2>2
  <2>3. CASE Disturb(q)
    <3>1. \A r \in Request : r # q => (stage'[r] = "Weighing" => disturbed'[r] = TRUE)
      BY <1>6, <2>3, Others DEF Disturb
    <3> QED BY <2>1, <3>1
  <2> QED BY <1>6, <2>2, <2>3 DEF Ends
<1>7. CASE Outside
  BY <1>1, <1>7 DEF Outside, Change, Hear, Tick, handler, counters
<1> QED
  BY <1>1, <1>4, <1>5, <1>6, <1>7, Kinds DEF Next, Outside, Weighs, vars, handler, counters

--------------------------------------------------------------------------------
(* The invariant and the properties of the choice. *)

LEMMA InitInv == Init => Inv
<1> SUFFICES ASSUME Init PROVE Inv
  OBVIOUS
<1>1. \A q \in Request : /\ stage[q] = "New" /\ wait[q] = 0 /\ probe[q] = NoProbes
                         /\ best[q] = NoBest /\ left[q] = {}
                         /\ \A n \in Name : candidate[q][n] = None
  BY DEF Init, NoCandidates
<1>2. TableInv
  BY DEF Init, TableInv
<1>3. KnownInv
  BY <1>1, BoundAssumption DEF KnownInv
<1>4. AnswerInv
  BY <1>1 DEF AnswerInv
<1>5. WeighInv /\ BestInv
  BY <1>1 DEF WeighInv, BestInv
<1> QED BY <1>2, <1>3, <1>4, <1>5, InitType DEF Inv

LEMMA NextInv == Inv /\ [Next]_vars => Inv'
<1> SUFFICES ASSUME Inv, [Next]_vars PROVE Inv'
  OBVIOUS
<1>1. TypeOK'
  BY TypeStep DEF Inv
<1> QED BY <1>1, TableStep, KnownStep, AnswerStep, WeighStep, BestStep DEF Inv

\* The invariant from which the properties of a choice follow.
THEOREM InvCorrect == Spec => []Inv
<1> QED BY InitInv, NextInv, PTL DEF Spec

\* A request that is about to be forwarded goes to one of its candidates that
\* passed the filters.
LEMMA ChosenRoutable ==
  ASSUME Inv, NEW q \in Chosen
  PROVE  /\ q \in Request /\ best[q].name \in Name /\ candidate[q][best[q].name] # None
         /\ best[q].name \in Candidates(q) /\ Routable(q, best[q].name)
BY DEF Inv, WeighInv, Chosen, Candidates

LEMMA KnownFollows == Inv => RoutedKnown
<1> SUFFICES ASSUME Inv, NEW q \in Chosen
             PROVE  IF best[q].name \in Static
                    THEN Target(q) = [url |-> StaticUrl[best[q].name], discovered |-> FALSE]
                    ELSE silence[[id |-> best[q].name, url |-> Target(q).url]] <= Ttl + ProbeTimeout
  BY DEF RoutedKnown
<1> DEFINE b == best[q].name
<1>1. q \in Request /\ b \in Name /\ candidate[q][b] # None
  BY ChosenRoutable
<1>2. Known(q, b) /\ wait[q] <= ProbeTimeout
  BY <1>1 DEF Inv, KnownInv
<1>3. CASE b \in Static
  BY <1>2, <1>3 DEF Known, Target
<1>4. CASE b \notin Static
  <2> DEFINE x == [id |-> b, url |-> candidate[q][b].url]
  <2>1. x \in Advert /\ silence[x] <= Ttl + wait[q]
    BY <1>2, <1>4 DEF Known, Source
  <2>2. silence[x] \in Nat /\ wait[q] \in Nat /\ Ttl \in Nat /\ ProbeTimeout \in Nat
    BY <1>1, <2>1, BoundAssumption DEF Inv, TypeOK
  <2> HIDE DEF x
  <2>3. silence[x] <= Ttl + ProbeTimeout
    BY <1>2, <2>1, <2>2
  <2> QED BY <1>4, <2>3 DEF Target, x
<1> QED BY <1>3, <1>4

\* Every request goes to a configured upstream at its URL, or to a node that
\* advertised itself under that name and URL recently enough.
THEOREM TargetKnown == Spec => []RoutedKnown
<1> QED BY InvCorrect, KnownFollows, PTL

LEMMA VerifiedFollows == Inv => RoutedVerified
<1> SUFFICES ASSUME Inv, NEW q \in Chosen
             PROVE  /\ witnessed[q][Target(q).url] \intersect Ready # {}
                    /\ witnessed[q][Target(q).url]
                         \intersect (Suitable(Target(q).discovered) \union {"Loading"}) # {}
  BY DEF RoutedVerified
<1> DEFINE b == best[q].name
<1>1. q \in Request /\ b \in Name /\ candidate[q][b] # None /\ Routable(q, b)
  BY ChosenRoutable
<1>2. /\ Witness(q, b, HealthSeen[probe[q][b].health])
      /\ Witness(q, b, CapabilitiesSeen[probe[q][b].capabilities])
  BY <1>1 DEF Inv, AnswerInv
<1>3. Witness(q, b, Ready)
  BY <1>1, <1>2 DEF Routable, HealthSeen
<1>4. Witness(q, b, Suitable(Target(q).discovered) \union {"Loading"})
  BY <1>1, <1>2 DEF Routable, CapabilitiesSeen, Suitable, Target, Witness
<1> QED BY <1>3, <1>4 DEF Witness, Node, Target

\* Every request goes to a node that was ready, and served the route, while the
\* request probed it.
THEOREM TargetVerified == Spec => []RoutedVerified
<1> QED BY InvCorrect, VerifiedFollows, PTL

LEMMA LightestFollows == Inv => LightestChosen
<1> SUFFICES ASSUME Inv, NEW q \in Chosen, ~disturbed[q],
                    NEW n \in Candidates(q), Routable(q, n)
             PROVE  Weight(q, best[q].name) <= Weight(q, n)
  BY DEF LightestChosen
<1>1. q \in Request /\ stage[q] = "Weighing" /\ left[q] = {} /\ best[q].name # None
  BY DEF Chosen
<1>2. disturbed[q] = FALSE
  BY <1>1 DEF Inv, TypeOK
<1>3. best[q].weight = Weight(q, best[q].name) /\ best[q].weight <= Weight(q, n)
  BY <1>1, <1>2 DEF Inv, BestInv
<1> QED BY <1>3

\* Every request goes to a lightest routable node, unless another request moved
\* a counter while it was choosing.
THEOREM TargetLightest == Spec => []LightestChosen
<1> QED BY InvCorrect, LightestFollows, PTL

LEMMA SteadyStep ==
  ASSUME Inv, [Next]_vars, NEW q \in Request, stage[q] = "Weighing", stage'[q] = "Refused",
         NEW n \in Candidates(q)
  PROVE  ~(witnessed[q][Node(q, n)] \subseteq Suitable(candidate[q][n].discovered))
<1>1. left[q] = {} /\ best[q].name = None
  <2>1. ASSUME NEW r \in Request, Handler(r), r # q PROVE FALSE
    BY <2>1, Others DEF Inv
  <2>2. Handler(q)
    BY <2>1 DEF Next, Change, Hear, Tick, vars
  <2>4. CASE Refuse(q)
    BY <2>4 DEF Refuse
  <2>5. CASE ~Refuse(q)
    BY <2>2, <2>5 DEF Handler, Inv, TypeOK, Discover, HealthAnswers, CapabilitiesAnswer, Probes,
                       Filter, Weigh, Call, Finish, Drop
  <2> QED BY <2>4, <2>5
<1>2. ~Routable(q, n) /\ Answered(q, n) /\ n \in Name /\ candidate[q][n] # None
  BY <1>1 DEF Inv, WeighInv, Candidates
<1>3. /\ Witness(q, n, HealthSeen[probe[q][n].health])
      /\ Witness(q, n, CapabilitiesSeen[probe[q][n].capabilities])
  BY <1>2 DEF Inv, AnswerInv
<1>4. probe[q][n].health \in Health /\ probe[q][n].capabilities \in Capabilities
      /\ candidate[q][n].discovered \in BOOLEAN
  BY <1>2 DEF Inv, TypeOK, Upstream
<1>5. CASE probe[q][n].health = "Bad"
  BY <1>3, <1>5 DEF HealthSeen, Witness, Suitable
<1>6. CASE probe[q][n].capabilities = "Bad"
  BY <1>3, <1>6 DEF CapabilitiesSeen, Witness, Suitable
<1>7. CASE probe[q][n].capabilities = "Open" /\ candidate[q][n].discovered
  BY <1>3, <1>7 DEF CapabilitiesSeen, Witness, Suitable
<1> QED
  BY <1>2, <1>4, <1>5, <1>6, <1>7 DEF Answered, Routable, Health, Capabilities

\* No request is refused while one of its candidates could serve it all along.
THEOREM NoneRefusedNeedlessly == Spec => SteadyServes
<1>1. Inv /\ [Next]_vars =>
        [\A q \in Request : stage[q] = "Weighing" /\ stage'[q] = "Refused" =>
           \A n \in Candidates(q) :
             ~(witnessed[q][Node(q, n)] \subseteq Suitable(candidate[q][n].discovered))]_vars
  BY SteadyStep
<1> QED BY <1>1, InvCorrect, PTL DEF Spec, SteadyServes

--------------------------------------------------------------------------------
(* The counters. *)

Held(n) == {q \in Request : stage[q] \in {"Calling", "Abandoned"} /\ best[q].name = n}

AtEnd(s) == {q \in Request : stage[q] = s}

LEMMA Sizes ==
  ASSUME NEW S \in SUBSET Request, NEW q \in Request
  PROVE  /\ Cardinality(S) \in Nat
         /\ q \notin S => Cardinality(S \union {q}) = Cardinality(S) + 1
         /\ q \in S => Cardinality(S \ {q}) = Cardinality(S) - 1 /\ Cardinality(S) > 0
<1>1. IsFiniteSet(S)
  BY BoundAssumption, FS_Subset
<1>2. Cardinality(S) \in Nat
  BY <1>1, FS_CardinalityType
<1>3. q \notin S => Cardinality(S \union {q}) = Cardinality(S) + 1
  BY <1>1, FS_AddElement
<1>4. q \in S => Cardinality(S \ {q}) = Cardinality(S) - 1
  BY <1>1, FS_RemoveElement
<1>5. q \in S => Cardinality(S \ {q}) \in Nat
  BY <1>1, FS_RemoveElement, FS_CardinalityType, FS_Subset
<1> QED BY <1>2, <1>3, <1>4, <1>5

LEMMA CountersStep ==
  ASSUME Inv, CountersExact, [Next]_vars PROVE CountersExact'
<1> USE DEF Inv, TypeOK
<1>1. /\ \A n \in Name : running[n] = Cardinality(Held(n))
      /\ completed = Cardinality(AtEnd("Completed")) /\ failed = Cardinality(AtEnd("Failed"))
  BY DEF CountersExact, Held, AtEnd
<1>2. SUFFICES /\ \A n \in Name : running'[n] = Cardinality(Held(n)')
               /\ completed' = Cardinality(AtEnd("Completed")')
               /\ failed' = Cardinality(AtEnd("Failed")')
  BY DEF CountersExact, Held, AtEnd
\* A step that moves no counter and keeps every request in its sets.
<1>3. ASSUME UNCHANGED counters,
             \A q \in Request :
               /\ stage'[q] = "Completed" <=> stage[q] = "Completed"
               /\ stage'[q] = "Failed" <=> stage[q] = "Failed"
               /\ stage'[q] \in {"Calling", "Abandoned"} <=> stage[q] \in {"Calling", "Abandoned"}
               /\ stage[q] \in {"Calling", "Abandoned"} => best'[q].name = best[q].name
      PROVE  /\ \A n \in Name : running'[n] = Cardinality(Held(n)')
             /\ completed' = Cardinality(AtEnd("Completed")')
             /\ failed' = Cardinality(AtEnd("Failed")')
  <2>1. \A n \in Name : Held(n)' = Held(n)
    BY <1>3 DEF Held
  <2>2. AtEnd("Completed")' = AtEnd("Completed") /\ AtEnd("Failed")' = AtEnd("Failed")
    BY <1>3 DEF AtEnd
  <2> QED BY <1>1, <1>3, <2>1, <2>2 DEF counters
<1>4. CASE Outside \/ UNCHANGED vars
  BY <1>3, <1>4 DEF Outside, Change, Hear, Tick, handler, vars
<1>5. ASSUME NEW q \in Request,
             Discover(q) \/ ProbeAnswers(q) \/ Filter(q) \/ Weighs(q) \/ Refuse(q) \/ Drop(q)
      PROVE  /\ \A n \in Name : running'[n] = Cardinality(Held(n)')
             /\ completed' = Cardinality(AtEnd("Completed")')
             /\ failed' = Cardinality(AtEnd("Failed")')
  <2>1. UNCHANGED counters
    BY <1>5 DEF Discover, ProbeAnswers, HealthAnswers, CapabilitiesAnswer, Filter, Weighs, Weigh,
                Refuse, Drop, counters
  <2>2. \A r \in Request : r # q => stage'[r] = stage[r] /\ best'[r] = best[r]
    BY <1>5 DEF Discover, ProbeAnswers, HealthAnswers, CapabilitiesAnswer, Filter, Weighs, Weigh,
                Refuse, Drop, Forget
  <2>3. /\ stage[q] \notin {"Completed", "Failed", "Abandoned"}
        /\ stage'[q] \notin {"Completed", "Failed"}
        /\ stage'[q] \in {"Calling", "Abandoned"} <=> stage[q] = "Calling"
        /\ stage[q] = "Calling" => best' = best
    BY <1>5 DEF Discover, ProbeAnswers, HealthAnswers, CapabilitiesAnswer, Probes, Filter, Weighs, Weigh,
                Refuse, Drop, Forget
  <2> HIDE DEF Inv, TypeOK
  <2> QED BY <1>3, <2>1, <2>2, <2>3
<1>6. ASSUME NEW q \in Request, Call(q)
      PROVE  /\ \A n \in Name : running'[n] = Cardinality(Held(n)')
             /\ completed' = Cardinality(AtEnd("Completed")')
             /\ failed' = Cardinality(AtEnd("Failed")')
  <2> DEFINE b == best[q].name
  <2>1. /\ stage' = [stage EXCEPT ![q] = "Calling"] /\ stage[q] = "Weighing" /\ best' = best
        /\ running' = [running EXCEPT ![b] = running[b] + 1]
        /\ completed' = completed /\ failed' = failed /\ b \in Name
    BY <1>6 DEF Call, Forget
  <2>2. Held(b)' = Held(b) \union {q} /\ q \notin Held(b)
    BY <2>1 DEF Held
  <2>3. \A n \in Name : n # b => Held(n)' = Held(n)
    BY <2>1 DEF Held
  <2>4. AtEnd("Completed")' = AtEnd("Completed") /\ AtEnd("Failed")' = AtEnd("Failed")
    BY <2>1 DEF AtEnd
  <2>5. Held(b) \in SUBSET Request
    BY DEF Held
  <2>6. Cardinality(Held(b)') = Cardinality(Held(b)) + 1
    BY <2>2, <2>5, Sizes
  <2>7. running'[b] = Cardinality(Held(b)')
    BY <1>1, <2>1, <2>6
  <2>8. \A n \in Name : n # b => running'[n] = Cardinality(Held(n)')
    BY <1>1, <2>1, <2>3
  <2> QED BY <1>1, <2>1, <2>4, <2>7, <2>8
<1>7. ASSUME NEW q \in Request, NEW success \in BOOLEAN, Finish(q, success)
      PROVE  /\ \A n \in Name : running'[n] = Cardinality(Held(n)')
             /\ completed' = Cardinality(AtEnd("Completed")')
             /\ failed' = Cardinality(AtEnd("Failed")')
  <2> DEFINE b == best[q].name
             s == IF success THEN "Completed" ELSE "Failed"
  <2>1. /\ stage' = [stage EXCEPT ![q] = s] /\ stage[q] = "Calling" /\ best' = best
        /\ running' = [running EXCEPT ![b] = IF running[b] > 0 THEN running[b] - 1 ELSE 0]
    BY <1>7 DEF Finish, Forget
  <2>2. b \in Name
    BY <2>1 DEF WeighInv
  <2>3. Held(b)' = Held(b) \ {q} /\ q \in Held(b)
    BY <2>1 DEF Held
  <2>4. \A n \in Name : n # b => Held(n)' = Held(n)
    BY <2>1 DEF Held
  <2>5. Held(b) \in SUBSET Request /\ AtEnd("Completed") \in SUBSET Request
        /\ AtEnd("Failed") \in SUBSET Request
    BY DEF Held, AtEnd
  <2>6. Cardinality(Held(b)') = Cardinality(Held(b)) - 1 /\ Cardinality(Held(b)) > 0
    BY <2>3, <2>5, Sizes
  <2>7. running'[b] = Cardinality(Held(b)')
    BY <1>1, <2>1, <2>2, <2>6
  <2>8. \A n \in Name : n # b => running'[n] = Cardinality(Held(n)')
    BY <1>1, <2>1, <2>4
  <2>9. completed' = Cardinality(AtEnd("Completed")') /\ failed' = Cardinality(AtEnd("Failed")')
    <3>1. CASE success
      <4>1. AtEnd("Completed")' = AtEnd("Completed") \union {q} /\ q \notin AtEnd("Completed")
            /\ AtEnd("Failed")' = AtEnd("Failed")
        BY <2>1, <3>1 DEF AtEnd
      <4>2. completed' = completed + 1 /\ failed' = failed
        BY <1>7, <3>1 DEF Finish
      <4> QED BY <1>1, <2>5, <4>1, <4>2, Sizes
    <3>2. CASE ~success
      <4>1. AtEnd("Failed")' = AtEnd("Failed") \union {q} /\ q \notin AtEnd("Failed")
            /\ AtEnd("Completed")' = AtEnd("Completed")
        BY <2>1, <3>2 DEF AtEnd
      <4>2. failed' = failed + 1 /\ completed' = completed
        BY <1>7, <3>2 DEF Finish
      <4> QED BY <1>1, <2>5, <4>1, <4>2, Sizes
    <3> QED BY <3>1, <3>2
  <2>10. \A n \in Name : running'[n] = Cardinality(Held(n)')
    <3> HIDE DEF Inv, TypeOK
    <3>1. ASSUME NEW n \in Name PROVE running'[n] = Cardinality(Held(n)')
      <4>1. CASE n = b
        <5>1. Held(n)' = Held(b)'
          BY <2>1, <4>1 DEF Held
        <5> QED BY <2>7, <4>1, <5>1
      <4>2. CASE n # b
        BY <2>8, <4>2
      <4> QED BY <4>1, <4>2
    <3> QED BY <3>1
  <2> QED BY <2>9, <2>10
<1> QED
  BY <1>4, <1>5, <1>6, <1>7 DEF Next, Handler, Outside, ProbeAnswers, Weighs

LEMMA InitCounters == Init => CountersExact
<1> SUFFICES ASSUME Init PROVE CountersExact
  OBVIOUS
<1>1. \A n \in Name : {q \in Request : stage[q] \in {"Calling", "Abandoned"} /\ best[q].name = n} = {}
  BY DEF Init
<1>2. {q \in Request : stage[q] = "Completed"} = {} /\ {q \in Request : stage[q] = "Failed"} = {}
  BY DEF Init
<1>3. (\A n \in Name : running[n] = 0) /\ completed = 0 /\ failed = 0
  BY DEF Init
<1> QED BY <1>1, <1>2, <1>3, FS_EmptySet DEF CountersExact

\* The counters are the numbers of requests they stand for, those dropped in
\* flight included.
THEOREM CountersCorrect == Spec => []CountersExact
<1>1. Inv /\ CountersExact /\ [Next]_vars => CountersExact'
  BY CountersStep
<1> QED BY <1>1, InvCorrect, InitCounters, PTL DEF Spec

-----------------------------------------------------------------------------
(* The calls of a node.  What is left of a handler is the end of the list  *)
(* of its steps, so whoever forwards has passed the key and the proof of   *)
(* the gateway; and a proof of the bound gateway says when it was there.   *)

\* The place of the next step of a handler in the list of its route.
Position(h) == Len(StepsOf(h.route)) + 1 - Len(h.todo)

InPlace(h) ==
  /\ Len(h.todo) <= Len(StepsOf(h.route))
  /\ \A n \in 1 .. Len(h.todo) :
       \/ h.todo[n] = StepsOf(h.route)[Position(h) + n - 1]
       \/ n = 1 /\ h.todo[n] = "check" /\ StepsOf(h.route)[Position(h)] = "approve"

PastStep(h, step) == \E n \in 1 .. Position(h) - 1 : StepsOf(h.route)[n] = step

\* What is around a handler.
Around == [config |-> config, upstream |-> upstream, offset |-> offset, now |-> now,
           lastOpen |-> lastOpen]

KeyShown(h, w) == ApiKey(w.config) => h.key = "right"
Met(h, w) == w.config.enforce => h.met

\* A proof of the bound gateway was signed while it was at the URL, after the call
\* had come.
ProofSeen(h, w) ==
  h.proof # NoProof /\ h.proof.id = Bound =>
    h.met /\ w.lastOpen # -1 /\ w.lastOpen >= h.proof.issued - w.offset

OpenHolds(h, w) ==
  /\ h.route \in Route /\ InPlace(h)
  /\ h.route = "health" => h.todo # <<>>
  /\ Approved(w.upstream) => h.met
  /\ PastStep(h, "authorize") => KeyShown(h, w)
  /\ PastStep(h, "approve") => Met(h, w)
  /\ ProofSeen(h, w)
  /\ h.proof # NoProof => h.route = "health" \/ (h.todo # <<>> /\ Head(h.todo) = "check")

ServedHolds(h, w) ==
  /\ h.route # "health" => KeyShown(h, w)
  /\ h.route \in {"chat", "messages", "infer"} => Met(h, w)
  /\ h.route = "health" /\ w.config.enforce =>
       w.lastOpen # -1 /\ w.now - w.lastOpen < ProofTtl + Greater(0, w.offset)

CallHolds(h, w) ==
  /\ h.stage = "open" => OpenHolds(h, w)
  /\ h.stage = "served" => ServedHolds(h, w)
  /\ h.stage = "refused" /\ h.todo = <<"forward">> => KeyShown(h, w) /\ Met(h, w)

NodeTyped ==
  /\ config \in Config /\ agent \in {"starting", "serving", "failed"}
  /\ upstream \in Endpoint /\ swaps \in 0 .. MaxSwaps
  /\ now \in 0 .. MaxTime /\ offset \in Offset
  /\ handled \in [NodeCall -> Handling]
  /\ lastOpen \in -1 .. MaxTime

NodeIInv ==
  /\ NodeTyped
  /\ lastOpen <= now
  /\ Approved(upstream) => lastOpen = now
  /\ agent = "serving" => ValidNodeConfig(config)
  /\ \A c \in NodeCall : CallHolds(handled[c], Around)

-----------------------------------------------------------------------------

KnownRoute == {"chat", "messages", "infer", "control", "load", "models", "health"}

\* The lists of the steps.
LEMMA StepLists ==
  /\ StepsOf("chat") = <<"approve", "authorize", "body", "forward">>
  /\ StepsOf("messages") = <<"approve", "authorize", "body", "translate", "forward">>
  /\ StepsOf("infer") = <<"authorize", "body", "approve", "prompt", "forward">>
  /\ StepsOf("control") = <<"authorize", "approve", "enabled", "body", "health">>
  /\ StepsOf("load") = <<"authorize", "health">>
  /\ StepsOf("models") = <<"authorize">>
  /\ StepsOf("health") = <<"health", "attest", "relay", "judge">>
<1>1. StepsOf("chat") = <<"approve", "authorize", "body", "forward">>
  BY DEF StepsOf
<1>2. StepsOf("messages") = <<"approve", "authorize", "body", "translate", "forward">>
  BY DEF StepsOf
<1>3. StepsOf("infer") = <<"authorize", "body", "approve", "prompt", "forward">>
  BY DEF StepsOf
<1>4. StepsOf("control") = <<"authorize", "approve", "enabled", "body", "health">>
  BY DEF StepsOf
<1>5. StepsOf("load") = <<"authorize", "health">>
  BY DEF StepsOf
<1>6. StepsOf("models") = <<"authorize">>
  BY DEF StepsOf
<1>7. StepsOf("health") = <<"health", "attest", "relay", "judge">>
  BY DEF StepsOf
<1>8. QED BY <1>1, <1>2, <1>3, <1>4, <1>5, <1>6, <1>7

\* Every handler authorizes, but that of the health route; whoever forwards has
\* authorized and asked the gateway, and the health route ends with its judgement.
LEMMA StepFacts ==
  ASSUME NEW r \in KnownRoute
  PROVE  /\ StepsOf(r) \in Seq(StepName) /\ Len(StepsOf(r)) \in 1 .. 5
         /\ \A q \in 1 .. Len(StepsOf(r)) : StepsOf(r)[q] \in StepName \ {"check"}
         /\ r # "health" => \E n \in 1 .. Len(StepsOf(r)) : StepsOf(r)[n] = "authorize"
         /\ r \in {"chat", "messages", "infer"} =>
              \E n \in 1 .. Len(StepsOf(r)) : StepsOf(r)[n] = "approve"
         /\ \A q \in 1 .. Len(StepsOf(r)) : StepsOf(r)[q] = "forward" =>
              /\ q = Len(StepsOf(r)) /\ r \in {"chat", "messages", "infer"}
              /\ \E n \in 1 .. q - 1 : StepsOf(r)[n] = "authorize"
              /\ \E n \in 1 .. q - 1 : StepsOf(r)[n] = "approve"
         /\ \A q \in 1 .. Len(StepsOf(r)) : StepsOf(r)[q] = "judge" => r = "health"
         /\ \A q \in 1 .. Len(StepsOf(r)) :
              StepsOf(r)[q] \in {"attest", "relay"} => r = "health"
         /\ r = "health" => StepsOf(r)[Len(StepsOf(r))] = "judge"
<1> DEFINE s == StepsOf(r)
<1>1. CASE r = "chat"
  <2>1. s = <<"approve", "authorize", "body", "forward">>
    BY <1>1, StepLists
  <2>2. s \in Seq(StepName) /\ Len(s) = 4 /\ s[1] = "approve" /\ s[2] = "authorize" /\ s[3] = "body" /\ s[4] = "forward"
    BY <2>1 DEF StepName
  <2>3. \A q \in 1 .. Len(s) : q \in {1, 2, 3, 4}
    BY <2>2
  <2>4. s \in Seq(StepName) /\ Len(s) \in 1 .. 5
        /\ \A q \in 1 .. Len(s) : s[q] \in StepName \ {"check"}
    BY <2>2, <2>3 DEF StepName
  <2>5. \A q \in 1 .. Len(s) : s[q] = "forward" =>
          /\ q = Len(s) /\ r \in {"chat", "messages", "infer"}
          /\ \E n \in 1 .. q - 1 : s[n] = "authorize"
          /\ \E n \in 1 .. q - 1 : s[n] = "approve"
    BY <1>1, <2>2, <2>3
  <2>6. QED BY <1>1, <2>2, <2>3, <2>4, <2>5
<1>2. CASE r = "messages"
  <2>1. s = <<"approve", "authorize", "body", "translate", "forward">>
    BY <1>2, StepLists
  <2>2. s \in Seq(StepName) /\ Len(s) = 5 /\ s[1] = "approve" /\ s[2] = "authorize" /\ s[3] = "body" /\ s[4] = "translate" /\ s[5] = "forward"
    BY <2>1 DEF StepName
  <2>3. \A q \in 1 .. Len(s) : q \in {1, 2, 3, 4, 5}
    BY <2>2
  <2>4. s \in Seq(StepName) /\ Len(s) \in 1 .. 5
        /\ \A q \in 1 .. Len(s) : s[q] \in StepName \ {"check"}
    BY <2>2, <2>3 DEF StepName
  <2>5. \A q \in 1 .. Len(s) : s[q] = "forward" =>
          /\ q = Len(s) /\ r \in {"chat", "messages", "infer"}
          /\ \E n \in 1 .. q - 1 : s[n] = "authorize"
          /\ \E n \in 1 .. q - 1 : s[n] = "approve"
    BY <1>2, <2>2, <2>3
  <2>6. QED BY <1>2, <2>2, <2>3, <2>4, <2>5
<1>3. CASE r = "infer"
  <2>1. s = <<"authorize", "body", "approve", "prompt", "forward">>
    BY <1>3, StepLists
  <2>2. s \in Seq(StepName) /\ Len(s) = 5 /\ s[1] = "authorize" /\ s[2] = "body" /\ s[3] = "approve" /\ s[4] = "prompt" /\ s[5] = "forward"
    BY <2>1 DEF StepName
  <2>3. \A q \in 1 .. Len(s) : q \in {1, 2, 3, 4, 5}
    BY <2>2
  <2>4. s \in Seq(StepName) /\ Len(s) \in 1 .. 5
        /\ \A q \in 1 .. Len(s) : s[q] \in StepName \ {"check"}
    BY <2>2, <2>3 DEF StepName
  <2>5. \A q \in 1 .. Len(s) : s[q] = "forward" =>
          /\ q = Len(s) /\ r \in {"chat", "messages", "infer"}
          /\ \E n \in 1 .. q - 1 : s[n] = "authorize"
          /\ \E n \in 1 .. q - 1 : s[n] = "approve"
    BY <1>3, <2>2, <2>3
  <2>6. QED BY <1>3, <2>2, <2>3, <2>4, <2>5
<1>4. CASE r = "control"
  <2>1. s = <<"authorize", "approve", "enabled", "body", "health">>
    BY <1>4, StepLists
  <2>2. s \in Seq(StepName) /\ Len(s) = 5 /\ s[1] = "authorize" /\ s[2] = "approve" /\ s[3] = "enabled" /\ s[4] = "body" /\ s[5] = "health"
    BY <2>1 DEF StepName
  <2>3. \A q \in 1 .. Len(s) : q \in {1, 2, 3, 4, 5}
    BY <2>2
  <2>4. s \in Seq(StepName) /\ Len(s) \in 1 .. 5
        /\ \A q \in 1 .. Len(s) : s[q] \in StepName \ {"check"}
    BY <2>2, <2>3 DEF StepName
  <2>5. \A q \in 1 .. Len(s) : s[q] = "forward" =>
          /\ q = Len(s) /\ r \in {"chat", "messages", "infer"}
          /\ \E n \in 1 .. q - 1 : s[n] = "authorize"
          /\ \E n \in 1 .. q - 1 : s[n] = "approve"
    BY <1>4, <2>2, <2>3
  <2>6. QED BY <1>4, <2>2, <2>3, <2>4, <2>5
<1>5. CASE r = "load"
  <2>1. s = <<"authorize", "health">>
    BY <1>5, StepLists
  <2>2. s \in Seq(StepName) /\ Len(s) = 2 /\ s[1] = "authorize" /\ s[2] = "health"
    BY <2>1 DEF StepName
  <2>3. \A q \in 1 .. Len(s) : q \in {1, 2}
    BY <2>2
  <2>4. s \in Seq(StepName) /\ Len(s) \in 1 .. 5
        /\ \A q \in 1 .. Len(s) : s[q] \in StepName \ {"check"}
    BY <2>2, <2>3 DEF StepName
  <2>5. \A q \in 1 .. Len(s) : s[q] = "forward" =>
          /\ q = Len(s) /\ r \in {"chat", "messages", "infer"}
          /\ \E n \in 1 .. q - 1 : s[n] = "authorize"
          /\ \E n \in 1 .. q - 1 : s[n] = "approve"
    BY <1>5, <2>2, <2>3
  <2>6. QED BY <1>5, <2>2, <2>3, <2>4, <2>5
<1>6. CASE r = "models"
  <2>1. s = <<"authorize">>
    BY <1>6, StepLists
  <2>2. s \in Seq(StepName) /\ Len(s) = 1 /\ s[1] = "authorize"
    BY <2>1 DEF StepName
  <2>3. \A q \in 1 .. Len(s) : q \in {1}
    BY <2>2
  <2>4. s \in Seq(StepName) /\ Len(s) \in 1 .. 5
        /\ \A q \in 1 .. Len(s) : s[q] \in StepName \ {"check"}
    BY <2>2, <2>3 DEF StepName
  <2>5. \A q \in 1 .. Len(s) : s[q] = "forward" =>
          /\ q = Len(s) /\ r \in {"chat", "messages", "infer"}
          /\ \E n \in 1 .. q - 1 : s[n] = "authorize"
          /\ \E n \in 1 .. q - 1 : s[n] = "approve"
    BY <1>6, <2>2, <2>3
  <2>6. QED BY <1>6, <2>2, <2>3, <2>4, <2>5
<1>7. CASE r = "health"
  <2>1. s = <<"health", "attest", "relay", "judge">>
    BY <1>7, StepLists
  <2>2. s \in Seq(StepName) /\ Len(s) = 4 /\ s[1] = "health" /\ s[2] = "attest" /\ s[3] = "relay" /\ s[4] = "judge"
    BY <2>1 DEF StepName
  <2>3. \A q \in 1 .. Len(s) : q \in {1, 2, 3, 4}
    BY <2>2
  <2>4. s \in Seq(StepName) /\ Len(s) \in 1 .. 5
        /\ \A q \in 1 .. Len(s) : s[q] \in StepName \ {"check"}
    BY <2>2, <2>3 DEF StepName
  <2>5. \A q \in 1 .. Len(s) : s[q] = "forward" =>
          /\ q = Len(s) /\ r \in {"chat", "messages", "infer"}
          /\ \E n \in 1 .. q - 1 : s[n] = "authorize"
          /\ \E n \in 1 .. q - 1 : s[n] = "approve"
    BY <1>7, <2>2, <2>3
  <2>6. QED BY <1>7, <2>2, <2>3, <2>4, <2>5
<1>8. QED BY <1>1, <1>2, <1>3, <1>4, <1>5, <1>6, <1>7 DEF KnownRoute

LEMMA RouteKnown == ASSUME NEW r \in Route PROVE r \in KnownRoute
BY RouteAssumption DEF KnownRoute

\* The next step of an open call.
LEMMA NextStep ==
  ASSUME NEW h \in Handling, h.route \in KnownRoute, InPlace(h), h.todo # <<>>
  PROVE  /\ Position(h) \in 1 .. Len(StepsOf(h.route)) /\ Len(h.todo) \in Nat \ {0}
         /\ Head(h.todo) = h.todo[1] /\ Head(h.todo) \in StepName
         /\ \/ Head(h.todo) = StepsOf(h.route)[Position(h)]
            \/ Head(h.todo) = "check" /\ StepsOf(h.route)[Position(h)] = "approve"
         /\ Tail(h.todo) \in Seq(StepName) /\ Len(Tail(h.todo)) = Len(h.todo) - 1
         /\ \A n \in 1 .. Len(h.todo) - 1 : Tail(h.todo)[n] = h.todo[n + 1]
<1>1. h.todo \in Seq(StepName)
  BY DEF Handling
<1>2. Len(h.todo) \in Nat \ {0}
  BY <1>1, EmptySeq, LenProperties
<1>3. /\ Head(h.todo) = h.todo[1] /\ h.todo[1] \in StepName
      /\ Tail(h.todo) \in Seq(StepName) /\ Len(Tail(h.todo)) = Len(h.todo) - 1
      /\ \A n \in 1 .. Len(h.todo) - 1 : Tail(h.todo)[n] = h.todo[n + 1]
  BY <1>1, <1>2, HeadTailProperties, LenProperties, ElementOfSeq
<1>4. Len(StepsOf(h.route)) \in Nat
  BY StepFacts
<1>5. Position(h) \in 1 .. Len(StepsOf(h.route))
  BY <1>2, <1>4 DEF Position, InPlace
<1>6. 1 \in 1 .. Len(h.todo) /\ Position(h) + 1 - 1 = Position(h)
  BY <1>2, <1>5
<1>7. \/ h.todo[1] = StepsOf(h.route)[Position(h)]
      \/ h.todo[1] = "check" /\ StepsOf(h.route)[Position(h)] = "approve"
  BY <1>6 DEF InPlace
<1>8. QED BY <1>2, <1>3, <1>5, <1>7

\* What the place says after a step.
LEMMA PlaceMoves ==
  ASSUME NEW h \in Handling, h.route \in KnownRoute, InPlace(h), h.todo # <<>>,
         NEW g, g.route = h.route, g.todo = Tail(h.todo)
  PROVE  /\ InPlace(g) /\ Position(g) = Position(h) + 1
         /\ \A step : PastStep(g, step) =>
              PastStep(h, step) \/ StepsOf(h.route)[Position(h)] = step
<1> DEFINE s == StepsOf(h.route)
           k == Position(h)
           t == Tail(h.todo)
<1>1. /\ k \in 1 .. Len(s) /\ Len(h.todo) \in Nat \ {0} /\ Len(t) = Len(h.todo) - 1
      /\ \A n \in 1 .. Len(h.todo) - 1 : t[n] = h.todo[n + 1]
  BY NextStep
<1>2. Len(s) \in Nat /\ k = Len(s) + 1 - Len(h.todo)
  BY StepFacts DEF Position
<1> HIDE DEF s, k, t
<1>0. StepsOf(g.route) = s /\ StepsOf(h.route) = s /\ Position(h) = k /\ g.todo = t
  BY DEF s, k, t
<1>3. Position(g) = k + 1
  <2>1. Position(g) = Len(s) + 1 - Len(t)
    BY <1>0 DEF Position
  <2>2. QED BY <1>1, <1>2, <2>1
<1>4. \A n \in 1 .. Len(h.todo) :
        \/ h.todo[n] = s[k + n - 1]
        \/ n = 1 /\ h.todo[n] = "check" /\ s[k] = "approve"
  BY <1>0 DEF InPlace
<1>5. Len(h.todo) <= Len(s)
  BY <1>0 DEF InPlace
<1>6. ASSUME NEW step, PastStep(g, step) PROVE PastStep(h, step) \/ s[k] = step
  <2>1. PICK n \in 1 .. k : s[n] = step
    <3>1. PICK n \in 1 .. Position(g) - 1 : StepsOf(g.route)[n] = step
      BY <1>6 DEF PastStep
    <3>2. Position(g) - 1 = k
      BY <1>1, <1>2, <1>3
    <3>3. QED BY <1>0, <3>1, <3>2
  <2>2. CASE n \in 1 .. k - 1
    BY <1>0, <2>1, <2>2 DEF PastStep
  <2>3. CASE n = k
    BY <2>1, <2>3
  <2>4. k \in Nat
    BY <1>1, <1>2
  <2>5. n \in 1 .. k - 1 \/ n = k
    BY <2>1, <2>4
  <2>6. QED BY <2>2, <2>3, <2>5
<1>8. ASSUME NEW n \in 1 .. Len(t) PROVE t[n] = s[k + 1 + n - 1]
  <2>1. n + 1 \in 1 .. Len(h.todo) /\ n + 1 # 1 /\ n \in 1 .. Len(h.todo) - 1
    BY <1>1
  <2>2. h.todo[n + 1] = s[k + (n + 1) - 1]
    BY <1>4, <2>1
  <2>3. k + (n + 1) - 1 = k + 1 + n - 1
    BY <1>1, <1>2
  <2>4. QED BY <1>1, <2>1, <2>2, <2>3
<1>9. Len(t) <= Len(s)
  BY <1>1, <1>2, <1>5
<1>10. InPlace(g)
  BY <1>0, <1>3, <1>8, <1>9 DEF InPlace
<1>11. QED BY <1>0, <1>3, <1>6, <1>10

\* A step that is passed.
LEMMA PassKeeps ==
  ASSUME NEW w, NEW h \in Handling, OpenHolds(h, w), h.todo # <<>>,
         NEW g, g.route = h.route, g.key = h.key, g.met = h.met, g.todo = Tail(h.todo),
         ProofSeen(g, w), g.proof # NoProof => h.route = "health",
         Head(h.todo) = "authorize" => KeyShown(h, w),
         Head(h.todo) \in {"approve", "check"} => Met(h, w),
         Head(h.todo) # "judge"
  PROVE  OpenHolds(g, w)
<1> DEFINE k == Position(h)
           s == StepsOf(h.route)
<1>1. h.route \in KnownRoute /\ InPlace(h) /\ h.route \in Route
  BY RouteKnown DEF OpenHolds
<1>2. /\ InPlace(g) /\ Position(g) = k + 1
      /\ \A step : PastStep(g, step) => PastStep(h, step) \/ s[k] = step
  BY <1>1, PlaceMoves
<1>3. /\ k \in 1 .. Len(s) /\ Len(h.todo) \in Nat \ {0}
      /\ Head(h.todo) = s[k] \/ (Head(h.todo) = "check" /\ s[k] = "approve")
      /\ Len(Tail(h.todo)) = Len(h.todo) - 1
  BY <1>1, NextStep
<1>4. Len(s) \in 1 .. 5 /\ (h.route = "health" => s[Len(s)] = "judge")
      /\ \A q \in 1 .. Len(s) : s[q] # "check"
  BY <1>1, StepFacts
<1>5. k = Len(s) + 1 - Len(h.todo)
  BY DEF Position
<1> HIDE DEF k, s
<1>6. h.route = "health" => g.todo # <<>>
  <2>1. SUFFICES ASSUME h.route = "health", g.todo = <<>> PROVE FALSE
    OBVIOUS
  <2>2. Tail(h.todo) = <<>>
    BY <2>1
  <2>3. Len(Tail(h.todo)) = 0
    BY <2>2, EmptySeq
  <2>4. Len(h.todo) = 1
    BY <1>3, <2>3
  <2>5. k = Len(s)
    BY <1>4, <1>5, <2>4
  <2>6. QED BY <1>3, <1>4, <2>1, <2>5
<1>7. PastStep(g, "authorize") => KeyShown(g, w)
  <2>1. s[k] = "authorize" => Head(h.todo) = "authorize"
    BY <1>3
  <2>2. QED BY <1>2, <2>1 DEF OpenHolds, KeyShown
<1>8. PastStep(g, "approve") => Met(g, w)
  <2>1. s[k] = "approve" => Head(h.todo) \in {"approve", "check"}
    BY <1>3
  <2>2. QED BY <1>2, <2>1 DEF OpenHolds, Met
<1>9. QED
  BY <1>1, <1>2, <1>6, <1>7, <1>8 DEF OpenHolds

\* The request of an open call goes out only when key and gateway have been checked.
LEMMA SendsChecked ==
  ASSUME NEW w, NEW h \in Handling, OpenHolds(h, w), h.todo # <<>>, Head(h.todo) = "forward"
  PROVE  KeyShown(h, w) /\ Met(h, w) /\ h.route \in {"chat", "messages", "infer"}
<1> DEFINE k == Position(h)
           s == StepsOf(h.route)
<1>1. h.route \in KnownRoute /\ InPlace(h)
  BY RouteKnown DEF OpenHolds
<1>2. k \in 1 .. Len(s) /\ s[k] = "forward"
  BY <1>1, NextStep
<1>3. /\ h.route \in {"chat", "messages", "infer"}
      /\ \E n \in 1 .. k - 1 : s[n] = "authorize"
      /\ \E n \in 1 .. k - 1 : s[n] = "approve"
  BY <1>1, <1>2, StepFacts
<1>4. PastStep(h, "authorize") /\ PastStep(h, "approve")
  BY <1>3 DEF PastStep
<1>5. QED
  BY <1>3, <1>4 DEF OpenHolds

\* A handler at its end has passed every step.
LEMMA EndsChecked ==
  ASSUME NEW w, NEW h \in Handling, OpenHolds(h, w), h.todo = <<>>
  PROVE  h.route # "health" /\ KeyShown(h, w) /\ (h.route \in {"chat", "messages", "infer"} => Met(h, w))
<1> DEFINE s == StepsOf(h.route)
<1>1. h.route \in KnownRoute /\ h.route # "health"
  BY RouteKnown DEF OpenHolds
<1>2. Len(s) \in 1 .. 5
  BY <1>1, StepFacts
<1>3. Position(h) = Len(s) + 1
  <2>1. Len(h.todo) = 0
    OBVIOUS
  <2>2. QED BY <1>2, <2>1 DEF Position
<1>4. /\ \E n \in 1 .. Len(s) : s[n] = "authorize"
      /\ h.route \in {"chat", "messages", "infer"} => \E n \in 1 .. Len(s) : s[n] = "approve"
  BY <1>1, StepFacts
<1>5. Position(h) - 1 = Len(s)
  BY <1>2, <1>3
<1>6. PastStep(h, "authorize") /\ (h.route \in {"chat", "messages", "infer"} => PastStep(h, "approve"))
  BY <1>4, <1>5 DEF PastStep
<1>7. QED
  BY <1>1, <1>6 DEF OpenHolds

\* A step of one handler.
LEMMA HandleKeeps ==
  ASSUME NodeIInv, NEW c \in NodeCall, NEW g \in Handling, Handle(c, g), CallHolds(g, Around)
  PROVE  NodeIInv'
<1>1. /\ handled' = [handled EXCEPT ![c] = g]
      /\ UNCHANGED <<config, agent, upstream, swaps, now, offset, lastOpen>>
  BY DEF Handle
<1>2. handled \in [NodeCall -> Handling]
  BY DEF NodeIInv, NodeTyped
<1>3. /\ handled' \in [NodeCall -> Handling]
      /\ \A d \in NodeCall : handled'[d] = IF d = c THEN g ELSE handled[d]
  BY <1>1, <1>2
<1>4. NodeTyped'
  BY <1>1, <1>3 DEF NodeIInv, NodeTyped
<1>5. Around' = Around
  BY <1>1 DEF Around
<1>6. ASSUME NEW d \in NodeCall PROVE CallHolds(handled'[d], Around')
  BY <1>3, <1>5 DEF NodeIInv
<1>7. QED
  BY <1>1, <1>4, <1>6 DEF NodeIInv

LEMMA CallFacts ==
  ASSUME NodeIInv, NEW c \in NodeCall
  PROVE  /\ handled[c] \in Handling /\ CallHolds(handled[c], Around)
         /\ \A step : At(c, step) => /\ OpenHolds(handled[c], Around) /\ handled[c].stage = "open"
                                     /\ handled[c].todo # <<>> /\ Head(handled[c].todo) = step
BY DEF NodeIInv, NodeTyped, CallHolds, At

LEMMA RefusedHolds ==
  ASSUME NodeIInv, NEW c \in NodeCall
  PROVE  /\ Refused(c) \in Handling /\ CallHolds(Refused(c), Around)
         /\ Refused(c).stage = "refused" /\ Refused(c).route = handled[c].route
         /\ Refused(c).key = handled[c].key /\ Refused(c).met = handled[c].met
<1>1. handled[c] \in Handling
  BY CallFacts
<1>2. <<>> \in Seq(StepName) /\ <<>> # <<"forward">>
  BY EmptySeq
<1>3. NoProof \in Proof
  BY DEF Proof
<1>4. /\ Refused(c) \in Handling /\ Refused(c).stage = "refused" /\ Refused(c).todo = <<>>
      /\ Refused(c).route = handled[c].route /\ Refused(c).key = handled[c].key
      /\ Refused(c).met = handled[c].met
  BY <1>1, <1>2, <1>3 DEF Refused, Handling
<1>5. QED
  BY <1>2, <1>4 DEF CallHolds

\* Pass and what may change with it.
PassWith(c, proof, healthy) == [Pass(c) EXCEPT !.proof = proof, !.healthy = healthy]

LEMMA PassForm ==
  ASSUME NodeIInv, NEW c \in NodeCall, handled[c].stage = "open", handled[c].todo # <<>>,
         OpenHolds(handled[c], Around), NEW proof \in Proof, NEW healthy \in BOOLEAN,
         NEW g, g = PassWith(c, proof, healthy)
  PROVE  /\ g \in Handling /\ g.stage = "open" /\ g.route = handled[c].route
         /\ g.key = handled[c].key /\ g.met = handled[c].met
         /\ g.todo = Tail(handled[c].todo) /\ g.proof = proof /\ g.healthy = healthy
<1>1. handled[c] \in Handling
  BY CallFacts
<1>2. Tail(handled[c].todo) \in Seq(StepName)
  BY <1>1, NextStep, RouteKnown DEF OpenHolds
<1> DEFINE t == Tail(handled[c].todo)
<1>3. Pass(c) = [handled[c] EXCEPT !.todo = t]
  BY DEF Pass
<1> HIDE DEF t
<1>4. t \in Seq(StepName) /\ t = Tail(handled[c].todo)
  BY <1>2 DEF t
<1>5. QED
  BY <1>1, <1>3, <1>4 DEF Handling, PassWith

LEMMA PassStep ==
  ASSUME NodeIInv, NEW c \in NodeCall, NEW proof \in Proof, NEW healthy \in BOOLEAN,
         NEW g, g = PassWith(c, proof, healthy), Handle(c, g),
         NEW step, At(c, step), step # "judge",
         step = "authorize" => KeyShown(handled[c], Around),
         step \in {"approve", "check"} => Met(handled[c], Around),
         proof = NoProof \/ (handled[c].route = "health" /\ ProofSeen(g, Around))
  PROVE  NodeIInv'
<1> DEFINE h == handled[c]
<1>1. /\ h \in Handling /\ OpenHolds(h, Around) /\ h.stage = "open" /\ h.todo # <<>>
      /\ Head(h.todo) = step
  BY CallFacts
<1>2. /\ g \in Handling /\ g.stage = "open" /\ g.route = h.route
      /\ g.key = h.key /\ g.met = h.met
      /\ g.todo = Tail(h.todo) /\ g.proof = proof /\ g.healthy = healthy
  BY <1>1, PassForm
<1>3. ProofSeen(g, Around) /\ (g.proof # NoProof => h.route = "health")
  BY <1>2 DEF ProofSeen
<1> HIDE DEF h
<1>4. OpenHolds(g, Around)
  BY <1>1, <1>2, <1>3, PassKeeps DEF h
<1>5. CallHolds(g, Around)
  BY <1>2, <1>4 DEF CallHolds
<1>6. QED
  BY <1>2, <1>5, HandleKeeps

LEMMA RefuseStep ==
  ASSUME NodeIInv, NEW c \in NodeCall, Handle(c, Refused(c))
  PROVE  NodeIInv'
BY RefusedHolds, HandleKeeps

\* What the gateway signs now.
LEMMA GatewayProof ==
  ASSUME NodeIInv
  PROVE  /\ HealthProof(upstream) \in Proof
         /\ HealthProof(upstream) # NoProof /\ HealthProof(upstream).id = Bound =>
              Approved(upstream) /\ lastOpen = now /\ HealthProof(upstream).issued = now + offset
<1>1. now \in Int /\ offset \in Int /\ upstream \in UpstreamState
  BY TimeAssumption, UpstreamAssumption DEF NodeIInv, NodeTyped
<1>2. CASE upstream.kind = "gateway" /\ upstream.open
  <2>1. upstream.id \in Deployment
    BY <1>1, <1>2 DEF UpstreamState
  <2>2. HealthProof(upstream) = [id |-> upstream.id, issued |-> now + offset]
    BY <1>2 DEF HealthProof
  <2>3. HealthProof(upstream) \in Proof
    BY <1>1, <2>1, <2>2 DEF Proof
  <2>4. HealthProof(upstream).id = upstream.id /\ HealthProof(upstream).issued = now + offset
    BY <2>2
  <2>5. QED BY <1>2, <2>3, <2>4 DEF Approved, NodeIInv
<1>3. CASE ~(upstream.kind = "gateway" /\ upstream.open)
  BY <1>3 DEF HealthProof, Proof
<1>4. QED BY <1>2, <1>3

\* A step that is passed with the proof as it is.
LEMMA PassPlain ==
  ASSUME NodeIInv, NEW c \in NodeCall, NEW healthy \in BOOLEAN,
         NEW step, At(c, step), step \notin {"judge", "check"},
         Handle(c, PassWith(c, handled[c].proof, healthy)),
         step = "authorize" => KeyShown(handled[c], Around),
         step = "approve" => Met(handled[c], Around)
  PROVE  NodeIInv'
<1>1. /\ handled[c] \in Handling /\ OpenHolds(handled[c], Around) /\ handled[c].stage = "open"
      /\ handled[c].todo # <<>> /\ Head(handled[c].todo) = step
  BY CallFacts
<1>2. handled[c].proof \in Proof
  BY <1>1 DEF Handling
<1> DEFINE g == PassWith(c, handled[c].proof, healthy)
<1>3. g.proof = handled[c].proof /\ g.met = handled[c].met
  BY <1>1, <1>2, PassForm
<1>4. handled[c].proof = NoProof \/ handled[c].route = "health"
  BY <1>1 DEF OpenHolds
<1>5. ProofSeen(g, Around)
  BY <1>1, <1>3 DEF OpenHolds, ProofSeen
<1> HIDE DEF g
<1>6. g = PassWith(c, handled[c].proof, healthy)
  BY DEF g
<1>7. Handle(c, g)
  BY <1>6
<1>8. QED
  BY <1>2, <1>4, <1>5, <1>6, <1>7, PassStep

LEMMA PassIsPlain ==
  ASSUME NodeIInv, NEW c \in NodeCall
  PROVE  /\ handled[c].healthy \in BOOLEAN
         /\ Pass(c) = PassWith(c, handled[c].proof, handled[c].healthy)
         /\ \A healthy \in BOOLEAN :
              [Pass(c) EXCEPT !.healthy = healthy] = PassWith(c, handled[c].proof, healthy)
         /\ \A proof :
              [Pass(c) EXCEPT !.proof = proof] = PassWith(c, proof, handled[c].healthy)
<1>1. handled[c] \in Handling
  BY CallFacts
<1> DEFINE t == Tail(handled[c].todo)
<1>2. Pass(c) = [handled[c] EXCEPT !.todo = t]
  BY DEF Pass
<1> HIDE DEF t
<1>3. QED BY <1>1, <1>2 DEF PassWith, Handling

\* The steps that pass or refuse.
LEMMA PlainSteps ==
  ASSUME NodeIInv, NEW c \in NodeCall,
         \/ Authorize(c) \/ CheckEnabled(c) \/ ReadBody(c) \/ AskHealth(c)
         \/ At(c, "translate") /\ (Handle(c, Pass(c)) \/ Handle(c, Refused(c)))
         \/ At(c, "prompt") /\ (Handle(c, Pass(c)) \/ Handle(c, Refused(c)))
  PROVE  NodeIInv'
<1>1. CASE Handle(c, Refused(c))
  BY <1>1, RefuseStep
<1>2. ASSUME NEW step \in {"enabled", "body", "translate", "prompt"}, At(c, step), Handle(c, Pass(c))
      PROVE  NodeIInv'
  BY <1>2, PassIsPlain, PassPlain
<1>3. ASSUME Authorize(c), ~Handle(c, Refused(c)) PROVE NodeIInv'
  <2>1. At(c, "authorize") /\ Handle(c, Pass(c)) /\ ~(ApiKey(config) /\ handled[c].key = "wrong")
    BY <1>3 DEF Authorize
  <2>2. handled[c].key \in {"right", "wrong"}
    BY CallFacts DEF Handling
  <2>3. KeyShown(handled[c], Around)
    BY <2>1, <2>2 DEF KeyShown, Around
  <2>4. QED BY <2>1, <2>3, PassIsPlain, PassPlain
<1>4. ASSUME AskHealth(c) PROVE NodeIInv'
  <2>1. PICK healthy \in BOOLEAN : Handle(c, [Pass(c) EXCEPT !.healthy = healthy])
    BY <1>4 DEF AskHealth, Healthy
  <2>2. At(c, "health")
    BY <1>4 DEF AskHealth
  <2>3. Handle(c, PassWith(c, handled[c].proof, healthy))
    BY <2>1, PassIsPlain
  <2>4. QED BY <2>2, <2>3, PassPlain
<1>5. QED
  BY <1>1, <1>2, <1>3, <1>4 DEF CheckEnabled, ReadBody

LEMMA AskStep ==
  ASSUME NodeIInv, NEW c \in NodeCall, AskGateway(c)
  PROVE  NodeIInv'
<1> DEFINE h == handled[c]
<1>1. h \in Handling
  BY CallFacts
<1>2. CASE At(c, "approve") /\ ~config.enforce /\ Handle(c, Pass(c))
  <2>1. Met(h, Around)
    BY <1>2 DEF Met, Around
  <2>2. QED BY <1>2, <2>1, PassIsPlain, PassPlain
<1>3. CASE /\ At(c, "approve") /\ config.enforce
           /\ Handle(c, [h EXCEPT !.todo = <<"check">> \o Tail(@), !.proof = HealthProof(upstream)])
  <2> DEFINE t == <<"check">> \o Tail(h.todo)
             g == [h EXCEPT !.todo = t, !.proof = HealthProof(upstream)]
  <2>1. /\ OpenHolds(h, Around) /\ h.stage = "open" /\ h.todo # <<>> /\ Head(h.todo) = "approve"
        /\ h.route \in KnownRoute /\ InPlace(h)
    BY <1>3, CallFacts, RouteKnown DEF OpenHolds
  <2>2. /\ Position(h) \in 1 .. Len(StepsOf(h.route)) /\ Len(h.todo) \in Nat \ {0}
        /\ StepsOf(h.route)[Position(h)] = "approve"
        /\ Tail(h.todo) \in Seq(StepName) /\ Len(Tail(h.todo)) = Len(h.todo) - 1
        /\ \A n \in 1 .. Len(h.todo) - 1 : Tail(h.todo)[n] = h.todo[n + 1]
    BY <1>1, <2>1, NextStep
  <2>3. <<"check">> \in Seq(StepName) /\ Len(<<"check">>) = 1 /\ <<"check">>[1] = "check"
    BY DEF StepName
  <2>4. /\ t \in Seq(StepName) /\ Len(t) = Len(h.todo)
        /\ t[1] = "check" /\ \A n \in 2 .. Len(h.todo) : t[n] = h.todo[n]
    <3>1. /\ t \in Seq(StepName) /\ Len(t) = Len(<<"check">>) + Len(Tail(h.todo))
          /\ \A i \in 1 .. Len(<<"check">>) + Len(Tail(h.todo)) :
               t[i] = IF i <= Len(<<"check">>) THEN <<"check">>[i] ELSE Tail(h.todo)[i - Len(<<"check">>)]
      BY <2>2, <2>3, ConcatProperties
    <3>2. Len(t) = Len(h.todo) /\ t[1] = "check"
      BY <2>2, <2>3, <3>1
    <3>3. ASSUME NEW n \in 2 .. Len(h.todo) PROVE t[n] = h.todo[n]
      <4>1. n \in 1 .. Len(<<"check">>) + Len(Tail(h.todo)) /\ ~(n <= 1) /\ n - 1 \in 1 .. Len(h.todo) - 1
        BY <2>2, <2>3
      <4>2. t[n] = Tail(h.todo)[n - 1]
        BY <2>3, <3>1, <4>1
      <4>3. Tail(h.todo)[n - 1] = h.todo[n - 1 + 1] /\ n - 1 + 1 = n
        BY <2>2, <4>1
      <4>4. QED BY <4>2, <4>3
    <3>4. QED BY <3>1, <3>2, <3>3
  <2> HIDE DEF t
  <2>5. Handle(c, g)
    BY <1>3 DEF t
  <2>6. HealthProof(upstream) \in Proof
    BY GatewayProof
  <2>7. /\ g \in Handling /\ g.stage = "open" /\ g.route = h.route /\ g.key = h.key
        /\ g.met = h.met /\ g.todo = t /\ g.proof = HealthProof(upstream)
    BY <1>1, <2>1, <2>4, <2>6 DEF Handling
  <2> HIDE DEF g
  <2>8. Position(g) = Position(h)
    BY <2>4, <2>7 DEF Position
  <2>9. InPlace(g)
    <3>1. Len(t) <= Len(StepsOf(h.route))
      BY <2>1, <2>4 DEF InPlace
    <3>2. ASSUME NEW n \in 1 .. Len(t)
          PROVE  \/ t[n] = StepsOf(h.route)[Position(h) + n - 1]
                 \/ n = 1 /\ t[n] = "check" /\ StepsOf(h.route)[Position(h)] = "approve"
      <4>1. CASE n = 1
        BY <2>2, <2>4, <4>1
      <4>2. CASE n # 1
        <5>1. n \in 2 .. Len(h.todo) /\ n \in 1 .. Len(h.todo)
          BY <2>2, <2>4, <4>2
        <5>2. h.todo[n] = StepsOf(h.route)[Position(h) + n - 1]
          BY <2>1, <4>2, <5>1 DEF InPlace
        <5>3. QED BY <2>4, <5>1, <5>2
      <4>3. QED BY <4>1, <4>2
    <3>3. QED BY <2>7, <2>8, <3>1, <3>2 DEF InPlace
  <2>10. g.todo # <<>> /\ Head(g.todo) = "check"
    <3>1. Len(t) # 0
      BY <2>2, <2>4
    <3>2. t # <<>>
      BY <3>1, EmptySeq
    <3>3. QED BY <2>4, <2>7, <3>2, HeadTailProperties
  <2>11. ProofSeen(g, Around)
    <3>1. SUFFICES ASSUME g.proof # NoProof, g.proof.id = Bound
                   PROVE  g.met /\ lastOpen # -1 /\ lastOpen >= g.proof.issued - offset
      BY DEF ProofSeen, Around
    <3>2. Approved(upstream) /\ lastOpen = now /\ g.proof.issued = now + offset
      BY <2>7, <3>1, GatewayProof
    <3>3. g.met
      BY <2>1, <2>7, <3>2 DEF OpenHolds, Around
    <3>4. now \in Nat /\ offset \in Int
      BY TimeAssumption DEF NodeIInv, NodeTyped
    <3>5. QED BY <3>2, <3>3, <3>4
  <2>12. OpenHolds(g, Around)
    <3>1. \A step : PastStep(g, step) <=> PastStep(h, step)
      BY <2>7, <2>8 DEF PastStep
    <3>2. KeyShown(g, Around) <=> KeyShown(h, Around)
      BY <2>7 DEF KeyShown
    <3>3. Met(g, Around) <=> Met(h, Around)
      BY <2>7 DEF Met
    <3>4. QED BY <2>1, <2>7, <2>9, <2>10, <2>11, <3>1, <3>2, <3>3 DEF OpenHolds
  <2>13. CallHolds(g, Around)
    BY <2>7, <2>12 DEF CallHolds
  <2>14. QED
    BY <2>5, <2>7, <2>13, HandleKeeps
<1>4. CASE At(c, "attest") /\ Handle(c, [Pass(c) EXCEPT !.proof =
                     IF config.enforce THEN HealthProof(upstream) ELSE NoProof])
  <2> DEFINE proof == IF config.enforce THEN HealthProof(upstream) ELSE NoProof
             g == PassWith(c, proof, h.healthy)
  <2>1. proof \in Proof
    BY GatewayProof DEF Proof
  <2>2. proof # NoProof => proof = HealthProof(upstream)
    OBVIOUS
  <2> HIDE DEF proof
  <2>3. Handle(c, g)
    BY <1>4, PassIsPlain DEF proof
  <2>4. /\ OpenHolds(h, Around) /\ h.stage = "open" /\ h.todo # <<>> /\ Head(h.todo) = "attest"
        /\ h.route \in KnownRoute /\ InPlace(h)
    BY <1>4, CallFacts, RouteKnown DEF OpenHolds
  <2>5. h.route = "health"
    BY <1>1, <2>4, NextStep, StepFacts
  <2>6. h.healthy \in BOOLEAN /\ g.proof = proof /\ g.met = h.met
    BY <1>1, <2>1, <2>4, PassForm, PassIsPlain
  <2> HIDE DEF g
  <2>7. ProofSeen(g, Around)
    <3>1. SUFFICES ASSUME g.proof # NoProof, g.proof.id = Bound
                   PROVE  g.met /\ lastOpen # -1 /\ lastOpen >= g.proof.issued - offset
      BY DEF ProofSeen, Around
    <3>2. Approved(upstream) /\ lastOpen = now /\ g.proof.issued = now + offset
      BY <2>2, <2>6, <3>1, GatewayProof
    <3>3. g.met
      BY <2>4, <2>6, <3>2 DEF OpenHolds, Around
    <3>4. now \in Nat /\ offset \in Int
      BY TimeAssumption DEF NodeIInv, NodeTyped
    <3>5. QED BY <3>2, <3>3, <3>4
  <2>8. g = PassWith(c, proof, h.healthy)
    BY DEF g
  <2>9. QED
    BY <1>4, <2>1, <2>3, <2>5, <2>6, <2>7, <2>8, PassStep
<1>5. QED
  BY <1>2, <1>3, <1>4 DEF AskGateway

LEMMA CheckStep ==
  ASSUME NodeIInv, NEW c \in NodeCall, CheckProof(c)
  PROVE  NodeIInv'
<1> DEFINE h == handled[c]
           g == PassWith(c, NoProof, h.healthy)
<1>1. CASE Handle(c, Refused(c))
  BY <1>1, RefuseStep
<1>2. CASE ProofHolds(h.proof) /\ Handle(c, [Pass(c) EXCEPT !.proof = NoProof])
  <2>1. At(c, "check") /\ OpenHolds(h, Around)
    BY CallFacts DEF CheckProof
  <2>2. h.met
    BY <1>2, <2>1 DEF ProofHolds, OpenHolds, ProofSeen
  <2>3. Met(h, Around) /\ NoProof \in Proof /\ h.healthy \in BOOLEAN
    BY <2>2, PassIsPlain DEF Met, Proof
  <2> HIDE DEF g
  <2>4. g = PassWith(c, NoProof, h.healthy) /\ Handle(c, g)
    BY <1>2, PassIsPlain DEF g
  <2>5. QED BY <2>1, <2>3, <2>4, PassStep
<1>3. QED BY <1>1, <1>2 DEF CheckProof

LEMMA RelayStep ==
  ASSUME NodeIInv, NEW c \in NodeCall, RelayProof(c)
  PROVE  NodeIInv'
<1> DEFINE h == handled[c]
           g == PassWith(c, NoProof, h.healthy)
<1>1. At(c, "relay") /\ NoProof \in Proof /\ h.healthy \in BOOLEAN
  BY PassIsPlain DEF RelayProof, Proof
<1>2. CASE Handle(c, Pass(c))
  BY <1>1, <1>2, PassIsPlain, PassPlain
<1>3. CASE Handle(c, [Pass(c) EXCEPT !.proof = NoProof])
  <2> HIDE DEF g
  <2>1. g = PassWith(c, NoProof, h.healthy) /\ Handle(c, g)
    BY <1>3, PassIsPlain DEF g
  <2>2. QED BY <1>1, <2>1, PassStep
<1>4. QED BY <1>2, <1>3 DEF RelayProof

LEMMA SendStep ==
  ASSUME NodeIInv, NEW c \in NodeCall, Send(c)
  PROVE  NodeIInv'
<1> DEFINE h == handled[c]
<1>1. /\ h \in Handling /\ OpenHolds(h, Around) /\ h.stage = "open" /\ h.todo # <<>>
      /\ Head(h.todo) = "forward"
  BY CallFacts DEF Send
<1>2. KeyShown(h, Around) /\ Met(h, Around) /\ h.route \in {"chat", "messages", "infer"}
  BY <1>1, SendsChecked
<1>3. CASE Handle(c, [Refused(c) EXCEPT !.todo = <<"forward">>])
  <2> DEFINE g == [Refused(c) EXCEPT !.todo = <<"forward">>]
  <2>1. <<"forward">> \in Seq(StepName)
    BY DEF StepName
  <2>2. g \in Handling /\ g.stage = "refused" /\ g.key = h.key /\ g.met = h.met
    BY <2>1, RefusedHolds DEF Handling
  <2> HIDE DEF g
  <2>3. CallHolds(g, Around)
    BY <1>2, <2>2 DEF CallHolds, KeyShown, Met
  <2>4. QED BY <1>3, <2>2, <2>3, HandleKeeps DEF g
<1>4. CASE Handle(c, [h EXCEPT !.stage = "served"])
  <2> DEFINE g == [h EXCEPT !.stage = "served"]
  <2>1. g \in Handling /\ g.stage = "served" /\ g.key = h.key /\ g.met = h.met /\ g.route = h.route
    BY <1>1 DEF Handling
  <2> HIDE DEF g
  <2>2. CallHolds(g, Around)
    BY <1>2, <2>1 DEF CallHolds, ServedHolds, KeyShown, Met
  <2>3. QED BY <1>4, <2>1, <2>2, HandleKeeps DEF g
<1>5. QED BY <1>3, <1>4 DEF Send

\* The router holds a node ready only on a proof that is still young.
LEMMA JudgeStep ==
  ASSUME NodeIInv, NEW c \in NodeCall, Judge(c)
  PROVE  NodeIInv'
<1> DEFINE h == handled[c]
           judged == IF h.healthy /\ (config.enforce => ProofHolds(h.proof)) THEN "served" ELSE "refused"
           g == [h EXCEPT !.stage = judged]
<1>1. /\ h \in Handling /\ OpenHolds(h, Around) /\ h.todo # <<>> /\ Head(h.todo) = "judge"
      /\ h.route \in KnownRoute /\ InPlace(h)
  BY CallFacts, RouteKnown DEF Judge, OpenHolds
<1>2. h.route = "health"
  BY <1>1, NextStep, StepFacts
<1>3. h.todo # <<"forward">>
  BY <1>1, HeadTailProperties
<1>4. Handle(c, g)
  BY DEF Judge
<1>5. judged \in {"served", "refused"} /\ (judged = "served" /\ config.enforce => ProofHolds(h.proof))
  OBVIOUS
<1> HIDE DEF judged
<1>6. g \in Handling /\ g.stage = judged /\ g.route = "health" /\ g.todo = h.todo
  BY <1>1, <1>2, <1>5 DEF Handling
<1> HIDE DEF g
<1>7. ASSUME judged = "served", config.enforce
      PROVE  lastOpen # -1 /\ now - lastOpen < ProofTtl + Greater(0, offset)
  <2>1. h.proof # NoProof /\ h.proof.id = Bound /\ now < h.proof.issued + ProofTtl
    BY <1>5, <1>7 DEF ProofHolds
  <2>2. lastOpen # -1 /\ lastOpen >= h.proof.issued - offset
    BY <1>1, <2>1 DEF OpenHolds, ProofSeen, Around
  <2>3. h.proof.issued \in Int
    BY <1>1, <2>1 DEF Handling, Proof
  <2>4. lastOpen \in Int /\ now \in Int /\ offset \in Int /\ ProofTtl \in Int
    BY TimeAssumption DEF NodeIInv, NodeTyped
  <2>5. QED BY <2>1, <2>2, <2>3, <2>4 DEF Greater
<1>8. ServedHolds(g, Around) \/ judged = "refused"
  BY <1>5, <1>6, <1>7 DEF ServedHolds, Around
<1>9. CallHolds(g, Around)
  BY <1>3, <1>5, <1>6, <1>8 DEF CallHolds
<1>10. QED BY <1>4, <1>6, <1>9, HandleKeeps

LEMMA AnswerCallStep ==
  ASSUME NodeIInv, NEW c \in NodeCall, Answer(c)
  PROVE  NodeIInv'
<1> DEFINE h == handled[c]
           g == [h EXCEPT !.stage = "served"]
<1>1. h \in Handling /\ OpenHolds(h, Around) /\ h.todo = <<>>
  BY CallFacts DEF Answer, CallHolds
<1>2. h.route # "health" /\ KeyShown(h, Around) /\ (h.route \in {"chat", "messages", "infer"} => Met(h, Around))
  BY <1>1, EndsChecked
<1>3. g \in Handling /\ g.stage = "served" /\ g.key = h.key /\ g.met = h.met /\ g.route = h.route
  BY <1>1 DEF Handling
<1>4. Handle(c, g)
  BY DEF Answer
<1> HIDE DEF g
<1>5. CallHolds(g, Around)
  BY <1>2, <1>3 DEF CallHolds, ServedHolds, KeyShown, Met
<1>6. QED BY <1>3, <1>4, <1>5, HandleKeeps

LEMMA NoHandlingHolds ==
  ASSUME NEW w
  PROVE  NoHandling \in Handling /\ CallHolds(NoHandling, w)
<1>1. <<>> \in Seq(StepName) /\ NoProof \in Proof
  BY EmptySeq DEF Proof
<1>2. QED BY <1>1 DEF NoHandling, Handling, CallHolds

LEMMA EndCallStep ==
  ASSUME NodeIInv, NEW c \in NodeCall, EndCall(c)
  PROVE  NodeIInv'
BY NoHandlingHolds, HandleKeeps DEF EndCall

LEMMA ArriveStep ==
  ASSUME NodeIInv, NEW c \in NodeCall, NEW route \in Route, NEW key \in {"right", "wrong"},
         Arrive(c, route, key)
  PROVE  NodeIInv'
<1> DEFINE s == StepsOf(route)
           g == [NoHandling EXCEPT !.stage = "open", !.route = route, !.key = key,
                                   !.todo = s, !.met = Approved(upstream)]
<1>1. Handle(c, g)
  BY DEF Arrive, Handle
<1>2. s \in Seq(StepName) /\ Len(s) \in 1 .. 5 /\ route \in KnownRoute
  BY RouteKnown, StepFacts
<1> HIDE DEF s
<1>3. Approved(upstream) \in BOOLEAN
  BY UpstreamAssumption DEF Approved, NodeIInv, NodeTyped, UpstreamState
<1>4. NoProof \in Proof
  BY DEF Proof
<1>5. /\ g \in Handling /\ g.stage = "open" /\ g.route = route /\ g.key = key /\ g.todo = s
      /\ g.met = Approved(upstream) /\ g.proof = NoProof
  BY <1>2, <1>3, <1>4 DEF NoHandling, Handling
<1> HIDE DEF g
<1>6. Position(g) = 1 /\ StepsOf(g.route) = s
  BY <1>2, <1>5 DEF Position, s
<1>7. InPlace(g)
  <2>1. Len(g.todo) <= Len(StepsOf(g.route))
    BY <1>2, <1>5, <1>6
  <2>2. ASSUME NEW n \in 1 .. Len(g.todo) PROVE g.todo[n] = StepsOf(g.route)[Position(g) + n - 1]
    <3>1. Position(g) + n - 1 = n
      BY <1>6
    <3>2. QED BY <1>5, <1>6, <3>1
  <2>3. QED BY <2>1, <2>2 DEF InPlace
<1>8. ~PastStep(g, "authorize") /\ ~PastStep(g, "approve")
  BY <1>6 DEF PastStep
<1>9. g.todo # <<>>
  BY <1>2, <1>5, EmptySeq
<1>10. OpenHolds(g, Around)
  BY <1>5, <1>7, <1>8, <1>9 DEF OpenHolds, ProofSeen, Around
<1>11. CallHolds(g, Around)
  BY <1>5, <1>10 DEF CallHolds
<1>12. QED BY <1>1, <1>5, <1>11, HandleKeeps

\* What holds of a call holds later.
LEMMA LaterHolds ==
  ASSUME NEW h, NEW g, NEW w, NEW v, CallHolds(h, w),
         g.stage = h.stage, g.route = h.route, g.key = h.key, g.todo = h.todo, g.proof = h.proof,
         h.met => g.met, h.stage = "open" /\ Approved(v.upstream) => g.met,
         v.config = w.config, v.offset = w.offset, v.lastOpen \in Int, w.lastOpen \in Int,
         v.lastOpen >= w.lastOpen, w.lastOpen # -1 => v.lastOpen # -1, v.offset \in Int,
         h.proof # NoProof => h.proof.issued \in Int,
         h.stage = "served" => v.now = w.now, w.now \in Int, ProofTtl \in Int
  PROVE  CallHolds(g, v)
<1>1. KeyShown(h, w) => KeyShown(g, v)
  BY DEF KeyShown
<1>2. Met(h, w) => Met(g, v)
  BY DEF Met
<1>3. ASSUME h.stage = "open" PROVE OpenHolds(g, v)
  <2>1. OpenHolds(h, w)
    BY <1>3 DEF CallHolds
  <2>2. InPlace(g)
    BY <2>1 DEF OpenHolds, InPlace, Position
  <2>3. \A step : PastStep(g, step) <=> PastStep(h, step)
    BY DEF PastStep, Position
  <2>4. ProofSeen(g, v)
    <3>1. SUFFICES ASSUME g.proof # NoProof, g.proof.id = Bound
                   PROVE  g.met /\ v.lastOpen # -1 /\ v.lastOpen >= g.proof.issued - v.offset
      BY DEF ProofSeen
    <3>2. h.met /\ w.lastOpen # -1 /\ w.lastOpen >= h.proof.issued - w.offset
      BY <2>1, <3>1 DEF OpenHolds, ProofSeen
    <3>3. v.lastOpen >= g.proof.issued - v.offset
      BY <3>1, <3>2
    <3>4. QED BY <3>2, <3>3
  <2>5. Approved(v.upstream) => g.met
    BY <1>3
  <2>6. QED BY <1>1, <1>2, <2>1, <2>2, <2>3, <2>4, <2>5 DEF OpenHolds
<1>4. ASSUME h.stage = "served" PROVE ServedHolds(g, v)
  <2>1. ServedHolds(h, w)
    BY <1>4 DEF CallHolds
  <2>2. g.route = "health" /\ v.config.enforce =>
          v.lastOpen # -1 /\ v.now - v.lastOpen < ProofTtl + Greater(0, v.offset)
    <3>1. SUFFICES ASSUME g.route = "health", v.config.enforce
                   PROVE  v.lastOpen # -1 /\ v.now - v.lastOpen < ProofTtl + Greater(0, v.offset)
      OBVIOUS
    <3>2. w.lastOpen # -1 /\ w.now - w.lastOpen < ProofTtl + Greater(0, w.offset)
      BY <2>1, <3>1 DEF ServedHolds
    <3>3. v.now = w.now
      BY <1>4
    <3>4. QED BY <3>2, <3>3 DEF Greater
  <2>3. QED BY <1>1, <1>2, <2>1, <2>2 DEF ServedHolds
<1>5. QED BY <1>1, <1>2, <1>3, <1>4 DEF CallHolds

LEMMA ProofTyped ==
  ASSUME NEW h \in Handling
  PROVE  h.proof # NoProof => h.proof.issued \in Int
BY DEF Handling, Proof

LEMMA SwapStep ==
  ASSUME NodeIInv, NEW e \in Endpoint, SwapUpstream(e)
  PROVE  NodeIInv'
<1>1. /\ swaps < MaxSwaps /\ upstream' = e /\ swaps' = swaps + 1
      /\ lastOpen' = IF Approved(e) THEN now ELSE lastOpen
      /\ UNCHANGED <<config, agent, now, offset>>
  BY DEF SwapUpstream
<1>2. /\ swaps \in 0 .. MaxSwaps /\ now \in 0 .. MaxTime /\ lastOpen \in -1 .. MaxTime /\ lastOpen <= now
      /\ offset \in Int /\ MaxSwaps \in Nat /\ MaxTime \in Nat /\ ProofTtl \in Int
  BY TimeAssumption DEF NodeIInv, NodeTyped
<1>3. /\ swaps' \in 0 .. MaxSwaps /\ lastOpen' \in -1 .. MaxTime /\ lastOpen' <= now'
      /\ lastOpen' >= lastOpen /\ (lastOpen # -1 => lastOpen' # -1)
  BY <1>1, <1>2
<1>4. Approved(upstream') => lastOpen' = now'
  BY <1>1
<1>5. ASSUME NEW c \in NodeCall
      PROVE  /\ handled'[c] \in Handling /\ handled'[c].stage = handled[c].stage
             /\ handled'[c].route = handled[c].route /\ handled'[c].key = handled[c].key
             /\ handled'[c].todo = handled[c].todo /\ handled'[c].proof = handled[c].proof
             /\ handled[c].met => handled'[c].met
             /\ handled[c].stage = "open" /\ Approved(e) => handled'[c].met
  <2>1. handled'[c] = IF handled[c].stage = "open" /\ Approved(e)
                      THEN [handled[c] EXCEPT !.met = TRUE] ELSE handled[c]
    BY DEF SwapUpstream
  <2>2. handled[c] \in Handling
    BY CallFacts
  <2>3. CASE handled[c].stage = "open" /\ Approved(e)
    BY <2>1, <2>2, <2>3 DEF Handling
  <2>4. CASE ~(handled[c].stage = "open" /\ Approved(e))
    BY <2>1, <2>2, <2>4
  <2>5. QED BY <2>3, <2>4
<1>6. handled' \in [NodeCall -> Handling]
  <2>1. handled' = [c \in NodeCall |-> handled'[c]]
    BY DEF SwapUpstream
  <2>2. QED BY <1>5, <2>1
<1>7. ASSUME NEW c \in NodeCall PROVE CallHolds(handled'[c], Around')
  <2>1. /\ Around'.config = Around.config /\ Around'.offset = Around.offset
        /\ Around'.upstream = e /\ Around'.now = now /\ Around.now = now
        /\ Around'.lastOpen = lastOpen' /\ Around.lastOpen = lastOpen /\ Around.offset = offset
    BY <1>1 DEF Around
  <2>2. CallHolds(handled[c], Around) /\ handled[c] \in Handling
    BY CallFacts
  <2>3. handled[c].proof # NoProof => handled[c].proof.issued \in Int
    BY <2>2, ProofTyped
  <2>4. now \in Int /\ lastOpen \in Int /\ lastOpen' \in Int
    BY <1>2, <1>3
  <2>5. QED BY <1>2, <1>3, <1>5, <2>1, <2>2, <2>3, <2>4, LaterHolds
<1>8. NodeTyped'
  BY <1>1, <1>3, <1>6 DEF NodeIInv, NodeTyped
<1>9. (agent = "serving" => ValidNodeConfig(config))'
  BY <1>1 DEF NodeIInv
<1>10. QED BY <1>3, <1>4, <1>7, <1>8, <1>9 DEF NodeIInv

LEMMA PassTimeStep ==
  ASSUME NodeIInv, PassTime
  PROVE  NodeIInv'
<1>1. /\ now < MaxTime /\ now' = now + 1
      /\ lastOpen' = IF Approved(upstream) THEN now + 1 ELSE lastOpen
      /\ UNCHANGED <<config, agent, upstream, swaps, offset, handled>>
      /\ \A c \in NodeCall : handled[c].stage \in {"idle", "open"}
  BY DEF PassTime
<1>2. /\ now \in 0 .. MaxTime /\ lastOpen \in -1 .. MaxTime /\ lastOpen <= now
      /\ offset \in Int /\ MaxTime \in Nat /\ ProofTtl \in Int
  BY TimeAssumption DEF NodeIInv, NodeTyped
<1>3. /\ now' \in 0 .. MaxTime /\ lastOpen' \in -1 .. MaxTime /\ lastOpen' <= now'
      /\ lastOpen' >= lastOpen /\ (lastOpen # -1 => lastOpen' # -1)
  BY <1>1, <1>2
<1>4. Approved(upstream') => lastOpen' = now'
  BY <1>1
<1>5. ASSUME NEW c \in NodeCall PROVE CallHolds(handled'[c], Around')
  <2>1. /\ Around'.config = Around.config /\ Around'.offset = Around.offset
        /\ Around'.upstream = upstream /\ Around.upstream = upstream /\ Around.now = now
        /\ Around'.lastOpen = lastOpen' /\ Around.lastOpen = lastOpen /\ Around.offset = offset
    BY <1>1 DEF Around
  <2>2. CallHolds(handled[c], Around) /\ handled[c] \in Handling
    BY CallFacts
  <2>3. handled[c].proof # NoProof => handled[c].proof.issued \in Int
    BY <2>2, ProofTyped
  <2>4. now \in Int /\ lastOpen \in Int /\ lastOpen' \in Int
    BY <1>2, <1>3
  <2>5. handled[c].stage # "served" /\ handled'[c] = handled[c]
    BY <1>1
  <2>6. handled[c].stage = "open" /\ Approved(upstream) => handled[c].met
    BY <2>1, <2>2 DEF CallHolds, OpenHolds
  <2>7. QED BY <1>2, <1>3, <2>1, <2>2, <2>3, <2>4, <2>5, <2>6, LaterHolds
<1>6. NodeTyped'
  BY <1>1, <1>3 DEF NodeIInv, NodeTyped
<1>7. (agent = "serving" => ValidNodeConfig(config))'
  BY <1>1 DEF NodeIInv
<1>8. QED BY <1>3, <1>4, <1>5, <1>6, <1>7 DEF NodeIInv

LEMMA StartNodeStep ==
  ASSUME NodeIInv, StartNode
  PROVE  NodeIInv'
<1>1. /\ agent' \in {"serving", "failed"} /\ (agent' = "serving" => ValidNodeConfig(config))
      /\ UNCHANGED <<config, upstream, swaps, now, offset, handled, lastOpen>>
  BY DEF StartNode
<1>2. Around' = Around
  BY <1>1 DEF Around
<1>3. NodeTyped'
  BY <1>1 DEF NodeIInv, NodeTyped
<1>4. (agent = "serving" => ValidNodeConfig(config))'
  BY <1>1
<1>5. \A c \in NodeCall : CallHolds(handled'[c], Around')
  BY <1>1, <1>2 DEF NodeIInv
<1>6. (Approved(upstream) => lastOpen = now)' /\ (lastOpen <= now)'
  BY <1>1 DEF NodeIInv
<1>7. QED BY <1>3, <1>4, <1>5, <1>6 DEF NodeIInv

LEMMA NodeStutters ==
  ASSUME NodeIInv, UNCHANGED nodeVars
  PROVE  NodeIInv'
<1>1. Around' = Around
  BY DEF nodeVars, Around
<1>2. NodeTyped'
  BY DEF NodeIInv, NodeTyped, nodeVars
<1>3. \A c \in NodeCall : CallHolds(handled'[c], Around')
  BY <1>1 DEF NodeIInv, nodeVars
<1>4. QED BY <1>2, <1>3 DEF NodeIInv, nodeVars

LEMMA NodeSteps ==
  ASSUME NodeIInv, [NodeNext]_nodeVars
  PROVE  NodeIInv'
<1>1. ASSUME NEW c \in NodeCall, HandlerStep(c) PROVE NodeIInv'
  <2>1. CASE AskGateway(c) \/ CheckProof(c) \/ RelayProof(c)
    BY <2>1, AskStep, CheckStep, RelayStep
  <2>2. CASE Authorize(c) \/ CheckEnabled(c) \/ ReadBody(c) \/ AskHealth(c)
    BY <2>2, PlainSteps
  <2>3. CASE ProxyJson(c) \/ CallChat(c) \/ ProxyInfer(c)
    BY <2>3, PlainSteps, SendStep DEF ProxyJson, CallChat, ProxyInfer
  <2>4. CASE Judge(c) \/ Answer(c) \/ EndCall(c)
    BY <2>4, JudgeStep, AnswerCallStep, EndCallStep
  <2>5. QED BY <1>1, <2>1, <2>2, <2>3, <2>4 DEF HandlerStep
<1>2. QED
  BY <1>1, StartNodeStep, PassTimeStep, SwapStep, ArriveStep, NodeStutters DEF NodeNext

\* Of a node whose gateway comes and goes between the steps of its handlers: the
\* place of every handler in the list of its route, what its caller has shown by
\* then, and when the gateway whose proof it holds was last at the URL.
THEOREM NodeIInvCorrect == NodeSpec => []NodeIInv
<1>1. ASSUME NodeAgentInit PROVE NodeIInv
  <2>1. /\ lastOpen = IF Approved(upstream) THEN 0 ELSE -1
        /\ now = 0 /\ swaps = 0 /\ MaxTime \in Nat /\ MaxSwaps \in Nat
    BY <1>1, TimeAssumption DEF NodeAgentInit
  <2>2. \A c \in NodeCall : handled[c] = NoHandling /\ NoHandling \in Handling
    BY <1>1, NoHandlingHolds DEF NodeAgentInit
  <2>3. \A c \in NodeCall : CallHolds(handled[c], Around)
    BY <2>2, NoHandlingHolds
  <2>4. handled \in [NodeCall -> Handling]
    BY <1>1, NoHandlingHolds DEF NodeAgentInit
  <2>5. NodeTyped
    BY <1>1, <2>1, <2>4 DEF NodeAgentInit, NodeTyped
  <2>6. agent = "starting"
    BY <1>1 DEF NodeAgentInit
  <2>7. QED BY <2>1, <2>3, <2>5, <2>6 DEF NodeIInv
<1>2. QED
  BY <1>1, NodeSteps, PTL DEF NodeSpec

LEMMA NodeImplied == ASSUME NodeIInv PROVE NodeInv
<1>1. ASSUME NEW c \in NodeCall
      PROVE  /\ handled[c] \in Handling
             /\ handled[c].stage = "open" => OpenHolds(handled[c], Around)
             /\ handled[c].stage = "served" => ServedHolds(handled[c], Around)
             /\ handled[c].stage = "refused" /\ handled[c].todo = <<"forward">> =>
                  KeyShown(handled[c], Around) /\ Met(handled[c], Around)
  BY CallFacts DEF CallHolds
<1>2. NodeTypeOK
  <2>1. ASSUME NEW c \in NodeCall, handled[c].stage = "open", handled[c].proof # NoProof
        PROVE  handled[c].route = "health" \/ Head(handled[c].todo) = "check"
    BY <1>1, <2>1 DEF OpenHolds
  <2>2. QED BY <2>1 DEF NodeIInv, NodeTyped, NodeTypeOK
<1>3. ForwardedApproved
  <2>1. ASSUME NEW c \in NodeCall, Forwarded(c)
        PROVE  KeyShown(handled[c], Around) /\ Met(handled[c], Around)
    BY <1>1, <2>1 DEF Forwarded, ServedHolds
  <2>2. QED BY <2>1 DEF ForwardedApproved, KeyShown, Met, Around
<1>4. ReadyIsRecent
  BY <1>1 DEF ReadyIsRecent, ServedHolds, Around
<1>5. AdvertisedUsable
  <2>1. SUFFICES ASSUME agent = "serving", config.advertise
                 PROVE  /\ Acceptable(Advertisement)
                        /\ \A c \in NodeCall : handled[c].stage = "served" /\ handled[c].route # "health" =>
                             handled[c].key = "right"
    BY DEF AdvertisedUsable
  <2>2. ApiKey(config) /\ PublicUrl(config)
    BY <2>1 DEF NodeIInv, ValidNodeConfig
  <2>3. Acceptable(Advertisement)
    <3>1. Advertisement.url = PublicUrl(config) /\ Advertisement.auth = ApiKey(config)
      BY DEF Advertisement
    <3>2. QED BY <2>2, <3>1 DEF Acceptable
  <2>4. QED BY <1>1, <2>2, <2>3 DEF ServedHolds, KeyShown, Around
<1>6. QED BY <1>2, <1>3, <1>4, <1>5 DEF NodeInv

\* What a node forwards has shown the key and met the approved gateway, what the
\* router holds ready was seen less than a proof's life ago, and a node that
\* advertises itself can be used, however the gateway is swapped.
THEOREM NodeCorrect == NodeSpec => []NodeInv
BY NodeIInvCorrect, NodeImplied, PTL

--------------------------------------------------------------------------------

(* What the router offers. *)

\* A set of naturals has a least one, which takes the place of an induction: the least
\* counterexample is none.
LEMMA LeastNatural ==
  ASSUME NEW T \in SUBSET Nat, T # {}
  PROVE  \E x \in T : \A y \in T : x <= y
<1> DEFINE R == {ss \in Nat \X Nat : ss[1] < ss[2]}
<1>1. R = OpToRel(<, Nat)
  BY DEF OpToRel
<1>2. IsWellFoundedOn(R, Nat)
  BY NatLessThanWellFounded, <1>1
<1> HIDE DEF R
<1>3. PICK x \in T : \A y \in T : ~(<<y, x>> \in R)
  BY <1>2, WFMin
<1>4. \A y \in T : ~(y < x)
  BY <1>3 DEF R
<1>5. \A y \in T : x <= y
  BY <1>4
<1> QED BY <1>5

\* The greatest of some of the first n numbers is one of them.
LEMMA MaxIsOneOf ==
  ASSUME NEW n \in Nat, NEW S \in SUBSET (1 .. n), S # {}
  PROVE  Max(S) \in S
<1> DEFINE T == {u \in Nat : \A y \in S : y <= u}
<1>1. n \in T
  OBVIOUS
<1>2. PICK u \in T : \A v \in T : u <= v
  BY <1>1, LeastNatural
<1>3. u \in S
  <2>1. SUFFICES ASSUME u \notin S
                 PROVE  FALSE
    OBVIOUS
  <2>2. \A y \in S : y <= u - 1 /\ u - 1 \in Nat
    BY <2>1
  <2>3. u - 1 \in T
    BY <2>2
  <2> QED BY <1>2, <2>3
<1>4. \A y \in S : u >= y
  BY <1>2
<1> QED BY <1>3, <1>4 DEF Max

\* g adds up v over the subsets of S.
AddsUp(g, S, v) ==
  g \in [SUBSET S -> Nat] /\ \A s \in SUBSET S :
    g[s] = IF s = {} THEN 0 ELSE v[CHOOSE x \in s : TRUE] + g[s \ {CHOOSE x \in s : TRUE}]

\* A sum over the subsets of a finite set is defined by what it is without one element
\* of each.
LEMMA SumExists ==
  ASSUME NEW S, IsFiniteSet(S), NEW v \in [S -> Nat]
  PROVE  \E g : AddsUp(g, S, v)
<1> DEFINE V == Nat
           b == 0
           step == [p \in S \X Nat |-> v[p[1]] + p[2]]
           c == [s \in SUBSET S |-> CHOOSE x \in s : TRUE]
<1>a. b \in V /\ step \in [S \X V -> V] /\ \A s \in SUBSET S : s # {} => c[s] \in s
  OBVIOUS
<1> HIDE DEF V, b, step, c
<1> DEFINE D(n) == {s \in SUBSET S : Cardinality(s) <= n}
           Solves(g, n) == \A s \in D(n) : g[s] = IF s = {} THEN b ELSE step[<<c[s], g[s \ {c[s]}]>>]
           Bad == {n \in Nat : ~\E g \in [D(n) -> V] : Solves(g, n)}
<1>1. Cardinality(S) \in Nat /\ D(Cardinality(S)) = SUBSET S
  BY FS_CardinalityType, FS_Subset
<1>2. \A s \in SUBSET S : Cardinality(s) \in Nat /\ IsFiniteSet(s) /\ (Cardinality(s) = 0 <=> s = {})
  BY FS_Subset, FS_CardinalityType, FS_EmptySet
<1>3. \A s \in SUBSET S : s # {} => /\ s \ {c[s]} \in SUBSET S
                                    /\ Cardinality(s \ {c[s]}) = Cardinality(s) - 1
  BY <1>2, <1>a, FS_RemoveElement
<1>4. Bad = {}
  <2>1. SUFFICES ASSUME Bad # {}
                 PROVE  FALSE
    OBVIOUS
  <2>2. PICK m \in Bad : \A n \in Bad : m <= n
    <3> HIDE DEF Bad
    <3>1. Bad \subseteq Nat
      BY DEF Bad
    <3> QED BY <2>1, <3>1, LeastNatural
  <2>5. m \in Nat /\ ~\E g \in [D(m) -> V] : Solves(g, m)
    BY <2>2
  <2>3. CASE m = 0
    <3> DEFINE g == [s \in D(0) |-> b]
    <3>1. \A s \in D(0) : s = {}
      <4>1. \A s \in D(0) : Cardinality(s) <= 0 /\ s \in SUBSET S
        OBVIOUS
      <4> QED BY <1>2, <4>1
    <3>2. g \in [D(0) -> V] /\ Solves(g, 0)
      BY <3>1, <1>a
    <3> QED BY <2>3, <2>5, <3>2
  <2>4. CASE m # 0
    <3>1. m - 1 \in Nat /\ m - 1 \notin Bad
      <4> HIDE DEF Bad
      <4> QED BY <2>2, <2>4, <2>5
    <3>2. PICK g \in [D(m - 1) -> V] : Solves(g, m - 1)
      BY <3>1
    <3> DEFINE h == [s \in D(m) |-> IF s = {} THEN b ELSE step[<<c[s], g[s \ {c[s]}]>>]]
    <3>3. ASSUME NEW s \in D(m), s # {}
          PROVE  s \ {c[s]} \in D(m - 1) /\ c[s] \in S
      <4>1. s \in SUBSET S /\ Cardinality(s) <= m
        OBVIOUS
      <4>2. Cardinality(s \ {c[s]}) = Cardinality(s) - 1 /\ Cardinality(s) \in Nat
        BY <1>2, <1>3, <3>3, <4>1
      <4>3. c[s] \in s /\ s \ {c[s]} \in SUBSET S
        BY <3>3, <4>1, <1>a
      <4>4. Cardinality(s) - 1 <= m - 1
        BY <2>5, <4>1, <4>2
      <4> QED BY <4>1, <4>2, <4>3, <4>4
    <3>4. h \in [D(m) -> V]
      <4>1. \A s \in D(m) : s # {} => step[<<c[s], g[s \ {c[s]}]>>] \in V
        BY <3>2, <3>3, <1>a
      <4> QED BY <4>1, <1>a
    <3>5. ASSUME NEW s \in D(m - 1)
          PROVE  s \in D(m) /\ h[s] = g[s]
      <4>1. s \in SUBSET S /\ Cardinality(s) <= m - 1
        OBVIOUS
      <4>2. Cardinality(s) <= m
        BY <1>2, <2>5, <4>1
      <4>3. s \in D(m)
        BY <4>1, <4>2
      <4>4. g[s] = IF s = {} THEN b ELSE step[<<c[s], g[s \ {c[s]}]>>]
        BY <3>2
      <4> HIDE DEF D
      <4> QED BY <4>3, <4>4
    <3>6. Solves(h, m)
      <4>1. ASSUME NEW s \in D(m), s # {}
            PROVE  h[s] = step[<<c[s], h[s \ {c[s]}]>>]
        <5>1. s \ {c[s]} \in D(m - 1)
          BY <3>3, <4>1
        <5>2. h[s \ {c[s]}] = g[s \ {c[s]}]
          BY <3>5, <5>1
        <5> QED BY <4>1, <5>2
      <4>2. \A s \in D(m) : s = {} => h[s] = b
        OBVIOUS
      <4> HIDE DEF h
      <4> QED BY <4>1, <4>2
    <3> HIDE DEF h
    <3> QED BY <2>5, <3>4, <3>6
  <2> QED BY <2>3, <2>4
<1>5. Cardinality(S) \notin Bad
  BY <1>4
<1>6. PICK g \in [D(Cardinality(S)) -> V] : Solves(g, Cardinality(S))
  BY <1>1, <1>5
<1>7. \A s \in SUBSET S : g[s] = IF s = {} THEN b ELSE step[<<c[s], g[s \ {c[s]}]>>]
  BY <1>1, <1>6
<1>8. g \in [SUBSET S -> V]
  BY <1>1, <1>6
<1>9. ASSUME NEW s \in SUBSET S, s # {}
      PROVE  g[s] = v[CHOOSE x \in s : TRUE] + g[s \ {CHOOSE x \in s : TRUE}]
  <2>1. c[s] \in S /\ c[s] = CHOOSE x \in s : TRUE
    BY <1>a, <1>9 DEF c
  <2>2. g[s \ {c[s]}] \in Nat
    BY <1>8 DEF V
  <2>3. step[<<c[s], g[s \ {c[s]}]>>] = v[c[s]] + g[s \ {c[s]}]
    BY <2>1, <2>2 DEF step
  <2> QED BY <1>7, <1>9, <2>1, <2>3
<1>10. g[{}] = 0
  BY <1>7 DEF b
<1> QED BY <1>8, <1>9, <1>10 DEF V, AddsUp

\* The load that the nodes report adds up to a number.
LEMMA RunningIsNat ==
  ASSUME IsFiniteSet(ReadyNodes), \A i \in ReadyNodes : answers[i].running \in Nat
  PROVE  AggregateRunning \in Nat
<1> DEFINE v == [i \in ReadyNodes |-> answers[i].running]
           Sums(g) == g = [s \in SUBSET ReadyNodes |->
                             IF s = {} THEN 0
                             ELSE answers[CHOOSE x \in s : TRUE].running
                                    + g[s \ {CHOOSE x \in s : TRUE}]]
           iter == CHOOSE g : Sums(g)
<1>1. AggregateRunning = iter[ReadyNodes]
  BY DEF AggregateRunning, MapThenSumSet, MapThenFoldSet
<1>2. v \in [ReadyNodes -> Nat]
  OBVIOUS
<1>4. PICK g : AddsUp(g, ReadyNodes, v)
  <2> HIDE DEF v, Sums, iter
  <2> QED BY <1>2, SumExists
<1>5. \A s \in SUBSET ReadyNodes :
        g[s] = IF s = {} THEN 0
               ELSE answers[CHOOSE x \in s : TRUE].running + g[s \ {CHOOSE x \in s : TRUE}]
  <2>1. ASSUME NEW s \in SUBSET ReadyNodes, s # {}
        PROVE  v[CHOOSE x \in s : TRUE] = answers[CHOOSE x \in s : TRUE].running
    <3>1. (CHOOSE x \in s : TRUE) \in ReadyNodes
      BY <2>1
    <3> QED BY <3>1
  <2> HIDE DEF v
  <2> QED BY <1>4, <2>1 DEF AddsUp
<1>6. Sums(g)
  BY <1>4, <1>5 DEF AddsUp
<1>7. Sums(iter)
  <2> HIDE DEF Sums
  <2> QED BY <1>6
<1>8. \A s \in SUBSET ReadyNodes : iter[s] \in Nat
  <2> HIDE DEF iter
  <2>1. \A s \in SUBSET ReadyNodes :
          iter[s] = IF s = {} THEN 0
                    ELSE answers[CHOOSE x \in s : TRUE].running + iter[s \ {CHOOSE x \in s : TRUE}]
    BY <1>7
  <2> DEFINE Bad == {Cardinality(s) : s \in {t \in SUBSET ReadyNodes : iter[t] \notin Nat}}
  <2>2. \A s \in SUBSET ReadyNodes : IsFiniteSet(s) /\ Cardinality(s) \in Nat
    BY FS_Subset, FS_CardinalityType
  <2>3. SUFFICES ASSUME Bad # {}
                 PROVE  FALSE
    OBVIOUS
  <2>4. Bad \in SUBSET Nat
    BY <2>2
  <2>5. PICK m \in Bad : \A n \in Bad : m <= n
    BY <2>3, <2>4, LeastNatural
  <2>6. PICK s \in SUBSET ReadyNodes : iter[s] \notin Nat /\ m = Cardinality(s)
    BY <2>5
  <2>7. s # {}
    BY <2>1, <2>6
  <2> DEFINE x == CHOOSE y \in s : TRUE
  <2>8. x \in s
    BY <2>7
  <2>9. s \ {x} \in SUBSET ReadyNodes /\ Cardinality(s \ {x}) = Cardinality(s) - 1
    BY <2>2, <2>8, FS_RemoveElement
  <2>10. Cardinality(s \ {x}) \notin Bad
    <3> HIDE DEF Bad, x
    <3>1. Cardinality(s) \in Nat /\ Cardinality(s \ {x}) < m
      BY <2>2, <2>6, <2>9
    <3>2. \A k \in Bad : k >= m /\ k \in Nat
      BY <2>4, <2>5
    <3> QED BY <3>1, <3>2
  <2>11. iter[s \ {x}] \in Nat
    BY <2>9, <2>10
  <2>12. answers[x].running \in Nat
    BY <2>8
  <2>13. iter[s] = answers[x].running + iter[s \ {x}]
    BY <2>1, <2>7
  <2> QED BY <2>6, <2>11, <2>12, <2>13
<1> QED BY <1>1, <1>8

--------------------------------------------------------------------------------

\* A function of the first numbers is a sequence.
LEMMA FunctionIsSeq ==
  ASSUME NEW n \in Nat, NEW S, NEW f \in [1 .. n -> S]
  PROVE  f \in Seq(S)
OBVIOUS

\* A key comes from an argument for the name.
LEMMA KeyOfGiven ==
  ASSUME NEW n \in Nat, NEW keys, DOMAIN keys = 1 .. n, NEW name
  PROVE  KeyOf(keys, name) # NoKey =>
           \E i \in DOMAIN keys : keys[i].name = name /\ keys[i].key = KeyOf(keys, name)
<1> DEFINE own == {i \in DOMAIN keys : keys[i].name = name}
<1>1. own \in SUBSET (1 .. n)
  OBVIOUS
<1>2. KeyOf(keys, name) = IF own = {} THEN NoKey ELSE keys[Max(own)].key
  BY DEF KeyOf
<1>3. own # {} => Max(own) \in own
  <2> HIDE DEF own
  <2> QED BY <1>1, MaxIsOneOf
<1>4. own # {} => Max(own) \in DOMAIN keys /\ keys[Max(own)].name = name
  BY <1>3
<1> HIDE DEF own
<1> QED BY <1>2, <1>4

CatalogTyped ==
  /\ routerArgs \in Arguments /\ routerState \in {"starting", "serving", "failed"}
  /\ configured \in Seq([name : NodeName, key : KeyText \union {NoKey}])
  /\ defaultKey \in KeyText \union {NoKey}
  /\ answers \in Seq(Answers) /\ DOMAIN answers = DOMAIN configured

CatalogIInv == CatalogTyped /\ KeysStayApart

LEMMA CatalogStep ==
  ASSUME CatalogIInv, [CatalogNext]_catalogVars
  PROVE  CatalogIInv'
<1> USE DEF CatalogIInv
<1>1. ASSUME StartRouter
      PROVE  CatalogIInv'
  <2> DEFINE a == routerArgs
             n == Len(a.specs)
             row == [i \in DOMAIN a.specs |->
                [name |-> a.specs[i].name,
                 key |-> IF FirstOfName(a.specs, i) THEN KeyOf(a.keys, a.specs[i].name) ELSE NoKey]]
  <2>1. a \in Arguments /\ a' = a
    BY <1>1 DEF StartRouter, CatalogTyped
  <2>2. /\ a.specs \in Seq([name : NodeName, valid : BOOLEAN])
        /\ a.keys \in Seq([name : NodeName \union {"default"}, key : KeyText])
    BY <2>1, CatalogAssumption DEF Arguments
  <2>3. n \in Nat /\ DOMAIN a.specs = 1 .. n /\ Len(a.keys) \in Nat /\ DOMAIN a.keys = 1 .. Len(a.keys)
    BY <2>2, LenProperties
  <2>4. \A i \in DOMAIN a.keys : a.keys[i] \in [name : NodeName \union {"default"}, key : KeyText]
    BY <2>2, <2>3, ElementOfSeq
  <2>5. ASSUME NEW name
        PROVE  KeyOf(a.keys, name) \in KeyText \union {NoKey}
    BY <2>3, <2>4, KeyOfGiven
  <2>6. CASE routerState' = "failed" /\ UNCHANGED <<configured, defaultKey, answers>>
    BY <1>1, <2>1, <2>6 DEF CatalogTyped, KeysStayApart
  <2>7. CASE /\ routerState' = "serving" /\ configured' = row
             /\ defaultKey' = KeyOf(a.keys, "default")
             /\ answers' \in [DOMAIN a.specs -> Answers]
    <3>1. ASSUME NEW i \in 1 .. n
          PROVE  /\ row[i] \in [name : NodeName, key : KeyText \union {NoKey}]
                 /\ row[i].key # NoKey =>
                      \E j \in DOMAIN a.keys :
                        a.keys[j] = [name |-> row[i].name, key |-> row[i].key]
      <4>1. a.specs[i].name \in NodeName
        <5>1. a.specs[i] \in [name : NodeName, valid : BOOLEAN]
          BY <2>2, <2>3, ElementOfSeq
        <5> QED BY <5>1
      <4> DEFINE k == IF FirstOfName(a.specs, i) THEN KeyOf(a.keys, a.specs[i].name) ELSE NoKey
      <4>2. row[i] = [name |-> a.specs[i].name, key |-> k]
        BY <2>3
      <4>3. k \in KeyText \union {NoKey}
        BY <2>5
      <4>4. ASSUME k # NoKey
            PROVE  \E j \in DOMAIN a.keys : a.keys[j].name = a.specs[i].name /\ a.keys[j].key = k
        BY <2>3, <4>4, KeyOfGiven
      <4> HIDE DEF k, row
      <4>5. row[i].name = a.specs[i].name /\ row[i].key = k
        BY <4>2
      <4>6. row[i] \in [name : NodeName, key : KeyText \union {NoKey}]
        BY <4>1, <4>2, <4>3
      <4>7. \A j \in DOMAIN a.keys : a.keys[j] = [name |-> a.keys[j].name, key |-> a.keys[j].key]
        BY <2>4
      <4> QED BY <4>4, <4>5, <4>6, <4>7
    <3>2. DOMAIN row = 1 .. n
      BY <2>3
    <3> HIDE DEF row
    <3>3. row \in Seq([name : NodeName, key : KeyText \union {NoKey}])
      <4>1. row = [i \in 1 .. n |-> row[i]]
        BY <2>7, <3>2 DEF row
      <4>2. row \in [1 .. n -> [name : NodeName, key : KeyText \union {NoKey}]]
        BY <3>1, <4>1
      <4>3. n \in Nat
        BY <2>3
      <4> HIDE DEF n
      <4> QED BY <4>2, <4>3, FunctionIsSeq
    <3>4. answers' \in Seq(Answers) /\ DOMAIN answers' = DOMAIN configured'
      BY <2>3, <2>7, <3>2
    <3>5. defaultKey' \in KeyText \union {NoKey}
      BY <2>5, <2>7
    <3>6. KeysStayApart'
      BY <2>1, <2>7, <3>1, <3>2 DEF KeysStayApart
    <3> QED BY <2>1, <2>7, <3>3, <3>4, <3>5, <3>6 DEF CatalogTyped
  <2> QED BY <1>1, <2>6, <2>7 DEF StartRouter
<1>2. ASSUME NEW i \in DOMAIN answers, NEW a \in Answers, AnswerOtherwise(i, a)
      PROVE  CatalogIInv'
  <2>1. answers' = [answers EXCEPT ![i] = a] /\ answers \in Seq(Answers)
    BY <1>2 DEF AnswerOtherwise, CatalogTyped
  <2>2. answers' \in Seq(Answers) /\ DOMAIN answers' = DOMAIN answers
    BY <1>2, <2>1
  <2> QED BY <1>2, <2>2 DEF AnswerOtherwise, CatalogTyped, KeysStayApart
<1>3. CASE UNCHANGED catalogVars
  BY <1>3 DEF catalogVars, CatalogTyped, KeysStayApart
<1> QED BY <1>1, <1>2, <1>3 DEF CatalogNext

\* Whatever is offered can be had, as every node serves all routes.
LEMMA OffersOnlyRoutable ==
  OfferedIsRoutable
<1>1. ASSUME NEW m \in AggregateModels, NEW route \in AggregateRoutes, NEW wanted \in Names[m],
             \A i \in Offering : answers[i].routes = RouterRoute
      PROVE  RoutableNodes(route, wanted) # {}
  <2>1. PICK i \in Offering : m \in answers[i].models
    BY DEF AggregateModels
  <2>2. route \in answers[i].routes
    BY <1>1, <2>1 DEF AggregateRoutes
  <2>3. ModelSupported(i, wanted)
    BY <2>1 DEF ModelSupported
  <2> QED BY <2>1, <2>2, <2>3 DEF RoutableNodes
<1>2. \A route \in AggregateRoutes :
        RouterHealthy /\ \E i \in Offering : route \in answers[i].routes
  BY DEF AggregateRoutes, RouterHealthy, Offering
<1> QED BY <1>1, <1>2 DEF OfferedIsRoutable

\* What the router lists can be asked for, what the nodes report adds up, and a node is
\* called with the key that was given for its name (apply_upstream_key_specs, the
\* aggregates of lmml-router), for any arguments and answers.
THEOREM CatalogCorrect == CatalogSpec => []CatalogInv
<1>1. CatalogInit => CatalogIInv
  BY DEF CatalogInit, CatalogIInv, CatalogTyped, KeysStayApart
<1>2. CatalogIInv /\ [CatalogNext]_catalogVars => CatalogIInv'
  BY CatalogStep
<1>3. CatalogIInv => CatalogInv
  <2>1. SUFFICES ASSUME CatalogIInv
                 PROVE  AggregateRunning \in Nat
    BY OffersOnlyRoutable DEF CatalogIInv, CatalogTyped, CatalogInv, CatalogTypeOK
  <2>2. answers \in Seq(Answers)
    BY <2>1 DEF CatalogIInv, CatalogTyped
  <2>3. DOMAIN answers = 1 .. Len(answers) /\ Len(answers) \in Nat
    BY <2>2
  <2>4. ReadyNodes \subseteq 1 .. Len(answers)
    BY <2>3 DEF ReadyNodes
  <2>5. IsFiniteSet(1 .. Len(answers))
    BY <2>3, FS_Interval
  <2>6. IsFiniteSet(ReadyNodes)
    BY <2>4, <2>5, FS_Subset
  <2>7. \A i \in 1 .. Len(answers) : answers[i] \in NodeAnswer
    BY <2>2, <2>3, CatalogAssumption
  <2>8. \A i \in ReadyNodes : answers[i].running \in Nat
    BY <2>4, <2>7 DEF NodeAnswer
  <2> QED BY <2>6, <2>8, RunningIsNat
<1> QED BY <1>1, <1>2, <1>3, PTL DEF CatalogSpec

--------------------------------------------------------------------------------

(* The bridge for the Messages API. *)

\* What holds for 0, and for each number up to n if for the one before, holds up to n.
LEMMA HoldsUpTo ==
  ASSUME NEW n \in Nat, NEW P, 0 \in P, \A i \in 1 .. n : i - 1 \in P => i \in P
  PROVE  \A i \in 0 .. n : i \in P
<1> DEFINE R == {ss \in Nat \X Nat : ss[1] < ss[2]}
           Bad == {i \in 0 .. n : i \notin P}
<1>1. R = OpToRel(<, Nat)
  BY DEF OpToRel
<1>2. IsWellFoundedOn(R, Nat)
  BY NatLessThanWellFounded, <1>1
<1> HIDE DEF R
<1>3. SUFFICES ASSUME Bad # {}
               PROVE  FALSE
  OBVIOUS
<1>4. Bad \in SUBSET Nat
  OBVIOUS
<1> HIDE DEF Bad
<1>5. PICK m \in Bad : \A i \in Bad : ~(<<i, m>> \in R)
  BY <1>2, <1>3, <1>4, WFMin
<1>6. m \in 1 .. n /\ m \notin P
  BY DEF Bad
<1>7. m - 1 \in Bad
  BY <1>6 DEF Bad
<1>8. m \in Nat /\ m - 1 \in Nat /\ m - 1 < m
  BY <1>6
<1>9. <<m - 1, m>> \in R
  BY <1>8 DEF R
<1> QED BY <1>5, <1>7, <1>9

\* The contents at each depth are defined.
LEMMA DepthsDefined ==
  ASSUME NEW content
  PROVE  \E at : /\ Contents(content) = UNION {at[n] : n \in 0 .. MaxNesting}
                 /\ at[0] = {content} /\ \A n \in 1 .. MaxNesting : at[n] = Nested(at[n - 1])
<1> DEFINE Fills(g, k) == g = [n \in 0 .. k |-> IF n = 0 THEN {content} ELSE Nested(g[n - 1])]
           P == {k \in 0 .. MaxNesting : \E g : Fills(g, k)}
           at == CHOOSE g : Fills(g, MaxNesting)
<1>1. MaxNesting \in Nat
  BY BridgeAssumption
<1>2. 0 \in P
  <2> DEFINE g == [n \in 0 .. 0 |-> {content}]
  <2>1. Fills(g, 0)
    <3>1. \A n \in 0 .. 0 : n = 0
      OBVIOUS
    <3> QED BY <3>1
  <2> HIDE DEF Fills, g
  <2> QED BY <1>1, <2>1
<1>3. ASSUME NEW k \in 1 .. MaxNesting, k - 1 \in P
      PROVE  k \in P
  <2>1. PICK g : Fills(g, k - 1)
    BY <1>3
  <2> DEFINE h == [n \in 0 .. k |-> IF n = k THEN Nested(g[k - 1]) ELSE g[n]]
  <2>2. \A n \in 0 .. k - 1 : g[n] = IF n = 0 THEN {content} ELSE Nested(g[n - 1])
    BY <2>1
  <2>3. \A n \in 0 .. k : h[n] = IF n = 0 THEN {content} ELSE Nested(h[n - 1])
    <3>1. \A n \in 0 .. k - 1 : h[n] = g[n]
      BY <1>1
    <3>2. h[k] = Nested(g[k - 1]) /\ h[k - 1] = g[k - 1]
      BY <1>1
    <3>3. \A n \in 1 .. k - 1 : n - 1 \in 0 .. k - 1 /\ n \in 0 .. k - 1
      BY <1>1
    <3>4. 0 \in 0 .. k - 1 /\ \A n \in 0 .. k : n = 0 \/ n \in 1 .. k - 1 \/ n = k
      BY <1>1
    <3> HIDE DEF h
    <3> QED BY <2>2, <3>1, <3>2, <3>3, <3>4
  <2>4. h = [n \in 0 .. k |-> h[n]]
    OBVIOUS
  <2> HIDE DEF h
  <2>5. Fills(h, k)
    BY <2>3, <2>4
  <2>6. k \in 0 .. MaxNesting
    BY <1>1
  <2> HIDE DEF Fills
  <2> QED BY <2>5, <2>6
<1>4. MaxNesting \in P
  <2> HIDE DEF P
  <2>1. \A i \in 0 .. MaxNesting : i \in P
    BY <1>1, <1>2, <1>3, HoldsUpTo
  <2> QED BY <1>1, <2>1
<1>5. Fills(at, MaxNesting)
  <2>1. \E g : Fills(g, MaxNesting)
    BY <1>4
  <2> HIDE DEF Fills
  <2> QED BY <2>1
<1>6. Contents(content) = UNION {at[n] : n \in 0 .. MaxNesting}
  BY DEF Contents
<1> HIDE DEF at
<1>7. \A n \in 0 .. MaxNesting : at[n] = IF n = 0 THEN {content} ELSE Nested(at[n - 1])
  BY <1>5
<1>8. at[0] = {content} /\ \A n \in 1 .. MaxNesting : at[n] = Nested(at[n - 1])
  BY <1>1, <1>7
<1> QED BY <1>6, <1>8

\* A set that has a content, and whatever lies within its own, has all of its contents.
LEMMA ContentsWithin ==
  ASSUME NEW content, NEW S, content \in S, Nested(S) \subseteq S
  PROVE  Contents(content) \subseteq S
<1>1. PICK at : /\ Contents(content) = UNION {at[n] : n \in 0 .. MaxNesting}
                /\ at[0] = {content} /\ \A n \in 1 .. MaxNesting : at[n] = Nested(at[n - 1])
  BY DepthsDefined
<1> DEFINE P == {n \in 0 .. MaxNesting : at[n] \subseteq S}
<1>2. MaxNesting \in Nat
  BY BridgeAssumption
<1>3. 0 \in P
  BY <1>1, <1>2
<1>4. ASSUME NEW n \in 1 .. MaxNesting, n - 1 \in P
      PROVE  n \in P
  <2>1. at[n - 1] \subseteq S
    BY <1>4
  <2>2. Nested(at[n - 1]) \subseteq Nested(S)
    BY <2>1 DEF Nested
  <2>3. n \in 0 .. MaxNesting
    BY <1>2
  <2> QED BY <1>1, <2>2, <2>3
<1>5. \A n \in 0 .. MaxNesting : n \in P
  <2> HIDE DEF P
  <2> QED BY <1>2, <1>3, <1>4, HoldsUpTo
<1> QED BY <1>1, <1>5

--------------------------------------------------------------------------------

(* The stream. *)

LEMMA Triple ==
  ASSUME NEW S, NEW a \in S, NEW b \in S, NEW c \in S
  PROVE  <<a, b, c>> \in Seq(S) /\ Len(<<a, b, c>>) = 3
OBVIOUS

LEMMA Pair ==
  ASSUME NEW S, NEW a \in S, NEW b \in S
  PROVE  <<a, b>> \in Seq(S) /\ Len(<<a, b>>) = 2
OBVIOUS

\* Where the elements of two sequences are in the one made of them.
LEMMA Joined ==
  ASSUME NEW S, NEW s \in Seq(S), NEW t \in Seq(S)
  PROVE  /\ s \o t \in Seq(S) /\ Len(s \o t) = Len(s) + Len(t)
         /\ Len(s) \in Nat /\ Len(t) \in Nat
         /\ \A i \in 1 .. Len(s) : (s \o t)[i] = s[i]
         /\ \A i \in 1 .. Len(t) : (s \o t)[Len(s) + i] = t[i]
<1> DEFINE u == s \o t
<1>1. /\ u \in Seq(S) /\ Len(u) = Len(s) + Len(t)
      /\ \A i \in 1 .. Len(s) + Len(t) : u[i] = IF i <= Len(s) THEN s[i] ELSE t[i - Len(s)]
  BY ConcatProperties
<1>2. Len(s) \in Nat /\ Len(t) \in Nat
  OBVIOUS
<1> HIDE DEF u
<1>3. \A i \in 1 .. Len(s) : u[i] = s[i]
  BY <1>1, <1>2
<1>4. ASSUME NEW i \in 1 .. Len(t)
      PROVE  u[Len(s) + i] = t[i]
  <2>1. Len(s) + i \in 1 .. Len(s) + Len(t) /\ ~(Len(s) + i <= Len(s)) /\ (Len(s) + i) - Len(s) = i
    BY <1>2
  <2> QED BY <1>1, <2>1
<1> QED BY <1>1, <1>2, <1>3, <1>4 DEF u

LEMMA SentDefined ==
  ASSUME NEW m, Len(m.content) \in Nat
  PROVE  \E sent : /\ Events(m) = sent[Len(m.content)] \o EndEvents(m)
                   /\ sent[0] = <<StartEvent>>
                   /\ \A n \in 1 .. Len(m.content) :
                        sent[n] = sent[n - 1] \o BlockEvents(m.content[n], n)
<1> DEFINE N == Len(m.content)
           Fills(g, k) == g = [n \in 0 .. k |-> IF n = 0 THEN <<StartEvent>>
                                               ELSE g[n - 1] \o BlockEvents(m.content[n], n)]
           P == {k \in 0 .. N : \E g : Fills(g, k)}
           sent == CHOOSE g : Fills(g, N)
<1>1. N \in Nat
  OBVIOUS
<1>2. 0 \in P
  <2> DEFINE g == [n \in 0 .. 0 |-> <<StartEvent>>]
  <2>1. Fills(g, 0)
    <3>1. \A n \in 0 .. 0 : n = 0
      OBVIOUS
    <3> QED BY <3>1
  <2> HIDE DEF Fills, g
  <2> QED BY <1>1, <2>1
<1>3. ASSUME NEW k \in 1 .. N, k - 1 \in P
      PROVE  k \in P
  <2>1. PICK g : Fills(g, k - 1)
    BY <1>3
  <2> DEFINE h == [n \in 0 .. k |-> IF n = k THEN g[k - 1] \o BlockEvents(m.content[k], k) ELSE g[n]]
  <2>2. \A n \in 0 .. k - 1 : g[n] = IF n = 0 THEN <<StartEvent>>
                                     ELSE g[n - 1] \o BlockEvents(m.content[n], n)
    BY <2>1
  <2>3. \A n \in 0 .. k : h[n] = IF n = 0 THEN <<StartEvent>>
                                 ELSE h[n - 1] \o BlockEvents(m.content[n], n)
    <3>1. \A n \in 0 .. k - 1 : h[n] = g[n]
      BY <1>1
    <3>2. h[k] = g[k - 1] \o BlockEvents(m.content[k], k) /\ h[k - 1] = g[k - 1]
      BY <1>1
    <3>3. \A n \in 1 .. k - 1 : n - 1 \in 0 .. k - 1 /\ n \in 0 .. k - 1
      BY <1>1
    <3>4. 0 \in 0 .. k - 1 /\ \A n \in 0 .. k : n = 0 \/ n \in 1 .. k - 1 \/ n = k
      BY <1>1
    <3> HIDE DEF h
    <3> QED BY <2>2, <3>1, <3>2, <3>3, <3>4
  <2>4. h = [n \in 0 .. k |-> h[n]]
    OBVIOUS
  <2> HIDE DEF h
  <2>5. Fills(h, k)
    BY <2>3, <2>4
  <2>6. k \in 0 .. N
    BY <1>1
  <2> HIDE DEF Fills
  <2> QED BY <2>5, <2>6
<1>4. N \in P
  <2> HIDE DEF P, N
  <2>1. \A i \in 0 .. N : i \in P
    BY <1>1, <1>2, <1>3, HoldsUpTo
  <2> QED BY <1>1, <2>1
<1>5. Fills(sent, N)
  <2>1. \E g : Fills(g, N)
    BY <1>4
  <2> HIDE DEF Fills
  <2> QED BY <2>1
<1>6. Events(m) = sent[N] \o EndEvents(m)
  BY DEF Events
<1> HIDE DEF sent
<1>7. \A n \in 0 .. N : sent[n] = IF n = 0 THEN <<StartEvent>>
                                  ELSE sent[n - 1] \o BlockEvents(m.content[n], n)
  BY <1>5
<1>8. sent[0] = <<StartEvent>>
  BY <1>1, <1>7
<1>9. ASSUME NEW n \in 1 .. N
      PROVE  sent[n] = sent[n - 1] \o BlockEvents(m.content[n], n)
  <2>1. n \in 0 .. N /\ n # 0
    BY <1>1
  <2> QED BY <1>7, <2>1
<1> QED BY <1>6, <1>8, <1>9

\* Where the events are in the stream.
LEMMA EventsPlaced ==
  ASSUME NEW m, Len(m.content) \in Nat
  PROVE  LET N == Len(m.content)
             e == Events(m)
         IN /\ Len(e) = 3 * N + 3 /\ e[1] = StartEvent
            /\ \A i \in 1 .. N : /\ e[3 * i - 1] = BlockEvents(m.content[i], i)[1]
                                /\ e[3 * i] = BlockEvents(m.content[i], i)[2]
                                /\ e[3 * i + 1] = BlockEvents(m.content[i], i)[3]
            /\ e[3 * N + 2] = EndEvents(m)[1] /\ e[3 * N + 3] = EndEvents(m)[2]
<1> DEFINE N == Len(m.content)
           B(i) == BlockEvents(m.content[i], i)
           E == {StartEvent} \union {B(i)[j] : i \in 1 .. N, j \in 1 .. 3}
                  \union {EndEvents(m)[1], EndEvents(m)[2]}
           Placed(s, k) == /\ s \in Seq(E) /\ Len(s) = 3 * k + 1 /\ s[1] = StartEvent
                           /\ \A i \in 1 .. k : /\ s[3 * i - 1] = B(i)[1] /\ s[3 * i] = B(i)[2]
                                               /\ s[3 * i + 1] = B(i)[3]
<1>1. PICK sent : /\ Events(m) = sent[N] \o EndEvents(m)
                  /\ sent[0] = <<StartEvent>>
                  /\ \A n \in 1 .. N : sent[n] = sent[n - 1] \o B(n)
  BY SentDefined
<1>2. \A i \in 1 .. N : B(i) \in Seq(E) /\ Len(B(i)) = 3
  <2>1. ASSUME NEW i \in 1 .. N
        PROVE  B(i) \in Seq(E) /\ Len(B(i)) = 3
    <3>1. B(i) = <<B(i)[1], B(i)[2], B(i)[3]>>
      BY DEF BlockEvents
    <3>2. B(i)[1] \in E /\ B(i)[2] \in E /\ B(i)[3] \in E
      OBVIOUS
    <3> HIDE DEF B, E
    <3>3. /\ <<B(i)[1], B(i)[2], B(i)[3]>> \in Seq(E)
          /\ Len(<<B(i)[1], B(i)[2], B(i)[3]>>) = 3
      BY <3>2, Triple
    <3> QED BY <3>1, <3>3
  <2> HIDE DEF B, E
  <2> QED BY <2>1
<1>3. N \in Nat
  OBVIOUS
<1>4. Placed(sent[0], 0)
  <2>1. StartEvent \in E
    OBVIOUS
  <2> HIDE DEF E
  <2> QED BY <1>1, <2>1
<1>5. EndEvents(m) \in Seq(E) /\ Len(EndEvents(m)) = 2
  <2>1. EndEvents(m) = <<EndEvents(m)[1], EndEvents(m)[2]>>
    BY DEF EndEvents
  <2>2. EndEvents(m)[1] \in E /\ EndEvents(m)[2] \in E
    OBVIOUS
  <2> HIDE DEF E
  <2>3. /\ <<EndEvents(m)[1], EndEvents(m)[2]>> \in Seq(E)
        /\ Len(<<EndEvents(m)[1], EndEvents(m)[2]>>) = 2
    BY <2>2, Pair
  <2> QED BY <2>1, <2>3
<1> DEFINE P == {k \in 0 .. N : Placed(sent[k], k)}
<1>6. ASSUME NEW k \in 1 .. N, k - 1 \in P
      PROVE  k \in P
  <2> DEFINE s == sent[k - 1]
             t == sent[k]
             b == B(k)
  <2>1. Placed(s, k - 1)
    BY <1>6
  <2> HIDE DEF E, B
  <2>2. t = s \o b /\ b \in Seq(E) /\ Len(b) = 3
    BY <1>1, <1>2
  <2>3. s \in Seq(E) /\ Len(s) = 3 * k - 2
    BY <1>3, <2>1
  <2> HIDE DEF s, t, b
  <2>4. /\ t \in Seq(E) /\ Len(t) = Len(s) + 3
        /\ \A i \in 1 .. Len(s) : t[i] = s[i]
        /\ \A i \in 1 .. 3 : t[Len(s) + i] = b[i]
    <3> HIDE DEF Placed, P
    <3>1. b \in Seq(E) /\ s \in Seq(E)
      BY <2>2, <2>3
    <3>2. /\ s \o b \in Seq(E) /\ Len(s \o b) = Len(s) + Len(b)
          /\ \A i \in 1 .. Len(s) : (s \o b)[i] = s[i]
          /\ \A i \in 1 .. Len(b) : (s \o b)[Len(s) + i] = b[i]
      BY ONLY <3>1, Joined
    <3> QED BY <2>2, <3>2
  <2>5. Len(t) = 3 * k + 1 /\ \A i \in 1 .. 3 * k - 2 : t[i] = s[i]
    BY <1>3, <2>3, <2>4
  <2>6. t[3 * k - 1] = b[1] /\ t[3 * k] = b[2] /\ t[3 * k + 1] = b[3]
    <3>1. 3 * k - 1 = Len(s) + 1 /\ 3 * k = Len(s) + 2 /\ 3 * k + 1 = Len(s) + 3
      BY <1>3, <2>3
    <3>2. t[Len(s) + 1] = b[1] /\ t[Len(s) + 2] = b[2] /\ t[Len(s) + 3] = b[3]
      BY <2>4
    <3> QED BY <3>1, <3>2
  <2>7. ASSUME NEW i \in 1 .. k - 1
        PROVE  t[3 * i - 1] = B(i)[1] /\ t[3 * i] = B(i)[2] /\ t[3 * i + 1] = B(i)[3]
    <3>1. /\ 3 * i - 1 \in 1 .. 3 * k - 2 /\ 3 * i \in 1 .. 3 * k - 2
          /\ 3 * i + 1 \in 1 .. 3 * k - 2
      BY <1>3
    <3>2. s[3 * i - 1] = B(i)[1] /\ s[3 * i] = B(i)[2] /\ s[3 * i + 1] = B(i)[3]
      BY <2>1
    <3> HIDE DEF B
    <3> QED BY <2>5, <3>1, <3>2
  <2>8. t[1] = StartEvent
    <3>1. 1 \in 1 .. 3 * k - 2 /\ s[1] = StartEvent
      BY <1>3, <2>1
    <3> QED BY <2>5, <3>1
  <2>9. \A i \in 1 .. k : i \in 1 .. k - 1 \/ i = k
    BY <1>3
  <2> HIDE DEF B
  <2>10. Placed(t, k)
    BY <2>4, <2>5, <2>6, <2>7, <2>8, <2>9 DEF b
  <2>11. k \in 0 .. N
    BY <1>3
  <2> HIDE DEF Placed
  <2> QED BY <2>10, <2>11 DEF t
<1>7. Placed(sent[N], N)
  <2> HIDE DEF Placed
  <2>1. 0 \in P
    BY <1>3, <1>4
  <2> HIDE DEF P, N
  <2>2. \A i \in 0 .. N : i \in P
    BY <1>3, <1>6, <2>1, HoldsUpTo
  <2> QED BY <1>3, <2>2 DEF P
<1> DEFINE s == sent[N]
           e == Events(m)
           d == EndEvents(m)
<1>8. s \in Seq(E) /\ Len(s) = 3 * N + 1
  BY <1>7
<1> HIDE DEF E, N
<1>9. e = s \o d /\ d \in Seq(E) /\ Len(d) = 2
  BY <1>1, <1>5
<1> HIDE DEF s, e, d
<1>14. /\ Len(e) = Len(s) + 2
       /\ \A i \in 1 .. Len(s) : e[i] = s[i]
       /\ \A i \in 1 .. 2 : e[Len(s) + i] = d[i]
  <2>1. /\ s \o d \in Seq(E) /\ Len(s \o d) = Len(s) + Len(d)
        /\ \A i \in 1 .. Len(s) : (s \o d)[i] = s[i]
        /\ \A i \in 1 .. Len(d) : (s \o d)[Len(s) + i] = d[i]
    <3> HIDE DEF Placed, P
    <3>1. s \in Seq(E) /\ d \in Seq(E)
      BY <1>8, <1>9
    <3> QED BY ONLY <3>1, Joined
  <2> QED BY <1>9, <2>1
<1>10. Len(e) = 3 * N + 3 /\ \A i \in 1 .. 3 * N + 1 : e[i] = s[i]
  BY <1>3, <1>8, <1>14
<1>11. e[3 * N + 2] = d[1] /\ e[3 * N + 3] = d[2]
  <2>1. 3 * N + 2 = Len(s) + 1 /\ 3 * N + 3 = Len(s) + 2
    BY <1>3, <1>8
  <2> QED BY <1>14, <2>1
<1>12. ASSUME NEW i \in 1 .. N
       PROVE  e[3 * i - 1] = B(i)[1] /\ e[3 * i] = B(i)[2] /\ e[3 * i + 1] = B(i)[3]
  <2>1. /\ 3 * i - 1 \in 1 .. 3 * N + 1 /\ 3 * i \in 1 .. 3 * N + 1
        /\ 3 * i + 1 \in 1 .. 3 * N + 1
    BY <1>3
  <2>2. s[3 * i - 1] = B(i)[1] /\ s[3 * i] = B(i)[2] /\ s[3 * i + 1] = B(i)[3]
    BY <1>7 DEF s
  <2> HIDE DEF B
  <2> QED BY <1>10, <2>1, <2>2
<1>13. e[1] = StartEvent
  <2>1. 1 \in 1 .. 3 * N + 1 /\ s[1] = StartEvent
    BY <1>3, <1>7 DEF s
  <2> QED BY <1>10, <2>1
<1> QED BY <1>10, <1>11, <1>12, <1>13 DEF N, e, d


\* What a client has after the first events: the states of its replay.
LEMMA AfterDefined ==
  ASSUME NEW e, Len(e) \in Nat
  PROVE  \E after : /\ Replayed(e) = after[Len(e)] /\ after[0] = Null
                    /\ \A k \in 1 .. Len(e) : after[k] = Applied(after[k - 1], e[k])
<1> DEFINE N == Len(e)
           Fills(g, k) == g = [n \in 0 .. k |-> IF n = 0 THEN Null ELSE Applied(g[n - 1], e[n])]
           P == {k \in 0 .. N : \E g : Fills(g, k)}
           after == CHOOSE g : Fills(g, N)
<1>1. N \in Nat
  OBVIOUS
<1>2. 0 \in P
  <2> DEFINE g == [n \in 0 .. 0 |-> Null]
  <2>1. Fills(g, 0)
    <3>1. \A n \in 0 .. 0 : n = 0
      OBVIOUS
    <3> QED BY <3>1
  <2> HIDE DEF Fills, g
  <2> QED BY <1>1, <2>1
<1>3. ASSUME NEW k \in 1 .. N, k - 1 \in P
      PROVE  k \in P
  <2>1. PICK g : Fills(g, k - 1)
    BY <1>3
  <2> DEFINE h == [n \in 0 .. k |-> IF n = k THEN Applied(g[k - 1], e[k]) ELSE g[n]]
  <2>2. \A n \in 0 .. k - 1 : g[n] = IF n = 0 THEN Null ELSE Applied(g[n - 1], e[n])
    BY <2>1
  <2>3. \A n \in 0 .. k : h[n] = IF n = 0 THEN Null ELSE Applied(h[n - 1], e[n])
    <3>1. \A n \in 0 .. k - 1 : h[n] = g[n]
      BY <1>1
    <3>2. h[k] = Applied(g[k - 1], e[k]) /\ h[k - 1] = g[k - 1]
      BY <1>1
    <3>3. \A n \in 1 .. k - 1 : n - 1 \in 0 .. k - 1 /\ n \in 0 .. k - 1
      BY <1>1
    <3>4. 0 \in 0 .. k - 1 /\ \A n \in 0 .. k : n = 0 \/ n \in 1 .. k - 1 \/ n = k
      BY <1>1
    <3> HIDE DEF h
    <3> QED BY <2>2, <3>1, <3>2, <3>3, <3>4
  <2>4. h = [n \in 0 .. k |-> h[n]]
    OBVIOUS
  <2> HIDE DEF h
  <2>5. Fills(h, k)
    BY <2>3, <2>4
  <2>6. k \in 0 .. N
    BY <1>1
  <2> HIDE DEF Fills
  <2> QED BY <2>5, <2>6
<1>4. N \in P
  <2> HIDE DEF P, N
  <2>1. \A i \in 0 .. N : i \in P
    BY <1>1, <1>2, <1>3, HoldsUpTo
  <2> QED BY <1>1, <2>1
<1>5. Fills(after, N)
  <2>1. \E g : Fills(g, N)
    BY <1>4
  <2> HIDE DEF Fills
  <2> QED BY <2>1
<1>6. Replayed(e) = after[N]
  BY DEF Replayed
<1> HIDE DEF after
<1>7. \A n \in 0 .. N : after[n] = IF n = 0 THEN Null ELSE Applied(after[n - 1], e[n])
  BY <1>5
<1>8. after[0] = Null
  BY <1>1, <1>7
<1>9. ASSUME NEW n \in 1 .. N
      PROVE  after[n] = Applied(after[n - 1], e[n])
  <2>1. n \in 0 .. N /\ n # 0
    BY <1>1
  <2> QED BY <1>7, <2>1
<1> QED BY <1>6, <1>8, <1>9

\* The first k blocks of a content, in a message that goes on.
Partial(c, k) == [content |-> [j \in 1 .. k |-> c[j]], stop_reason |-> Null, output_tokens |-> 0]

\* A block's start and delta, put together, are the block.
LEMMA BlockFilled ==
  ASSUME NEW b, (\E t : b = TextBlock(t)) \/ (\E id, input : b = ToolUse(id, input))
  PROVE  Filled(StartBlock(b), Delta(b)) = b
<1>1. CASE \E t : b = TextBlock(t)
  <2>1. PICK t : b = TextBlock(t)
    BY <1>1
  <2> QED BY <2>1 DEF Filled, StartBlock, Delta, TextBlock
<1>2. CASE \E id, input : b = ToolUse(id, input)
  <2>1. PICK id, input : b = ToolUse(id, input)
    BY <1>2
  <2> QED BY <2>1 DEF Filled, StartBlock, Delta, ToolUse
<1> QED BY <1>1, <1>2

\* The events of a block add it to what the client has.
LEMMA BlockReplayed ==
  ASSUME NEW c, NEW k \in Nat, NEW b, c[k + 1] = b, Filled(StartBlock(b), Delta(b)) = b
  PROVE  LET e == BlockEvents(b, k + 1) IN
         Applied(Applied(Applied(Partial(c, k), e[1]), e[2]), e[3]) = Partial(c, k + 1)
<1> DEFINE e == BlockEvents(b, k + 1)
           x == StartBlock(b)
           p == [j \in 1 .. k |-> c[j]]
           q == [j \in 1 .. k + 1 |-> IF j = k + 1 THEN x ELSE c[j]]
           r == [j \in 1 .. k + 1 |-> c[j]]
           M(s) == [content |-> s, stop_reason |-> Null, output_tokens |-> 0]
           S == {c[j] : j \in 1 .. k} \union {x}
<1>1. Append(p, x) = q
  <2>1. p \in Seq(S) /\ Len(p) = k /\ x \in S
    <3>1. \A j \in 1 .. k : c[j] \in S
      OBVIOUS
    <3>2. x \in S
      OBVIOUS
    <3> HIDE DEF S, x
    <3> QED BY <3>1, <3>2
  <2>2. \A j \in 1 .. k : p[j] = c[j]
    OBVIOUS
  <2> HIDE DEF S, p, x
  <2>3. /\ Append(p, x) \in Seq(S) /\ Len(Append(p, x)) = Len(p) + 1
        /\ \A i \in 1 .. Len(p) : Append(p, x)[i] = p[i]
        /\ Append(p, x)[Len(p) + 1] = x
    BY <2>1, AppendProperties
  <2> DEFINE y == Append(p, x)
  <2> HIDE DEF y
  <2>4. y \in Seq(S) /\ Len(y) = k + 1 /\ y[k + 1] = x /\ \A i \in 1 .. k : y[i] = c[i]
    BY <2>1, <2>2, <2>3 DEF y
  <2>5. y = [i \in 1 .. k + 1 |-> y[i]]
    BY <2>4
  <2>6. \A i \in 1 .. k + 1 : i = k + 1 \/ i \in 1 .. k
    OBVIOUS
  <2>7. \A i \in 1 .. k + 1 : y[i] = IF i = k + 1 THEN x ELSE c[i]
    BY <2>4, <2>6
  <2>8. y = q
    BY <2>5, <2>7
  <2> QED BY <2>8 DEF y
<1>2. Applied(Partial(c, k), e[1]) = M(q)
  <2>1. e[1].event = "content_block_start" /\ e[1].block = x
    BY DEF BlockEvents
  <2>2. Partial(c, k) = M(p)
    BY DEF Partial
  <2> HIDE DEF e, x, p, q
  <2>3. Applied(M(p), e[1]) = M(Append(p, x))
    BY <2>1 DEF Applied
  <2> QED BY <1>1, <2>2, <2>3
<1>3. Applied(M(q), e[2]) = M(r)
  <2>1. e[2].event = "content_block_delta" /\ e[2].index = k + 1 /\ e[2].delta = Delta(b)
    BY DEF BlockEvents
  <2>2. q[k + 1] = x
    OBVIOUS
  <2>3. [q EXCEPT ![k + 1] = b] = r
    OBVIOUS
  <2>4. Filled(x, Delta(b)) = b
    OBVIOUS
  <2> HIDE DEF e, x, q, r
  <2>5. Applied(M(q), e[2]) = M([q EXCEPT ![k + 1] = Filled(q[k + 1], Delta(b))])
    BY <2>1 DEF Applied
  <2> QED BY <2>2, <2>3, <2>4, <2>5
<1>4. Applied(M(r), e[3]) = M(r)
  <2>1. e[3].event = "content_block_stop"
    BY DEF BlockEvents
  <2> HIDE DEF e, r
  <2> QED BY <2>1 DEF Applied
<1>5. M(r) = Partial(c, k + 1)
  BY DEF Partial
<1> HIDE DEF M, e
<1> QED BY <1>2, <1>3, <1>4, <1>5 DEF e

\* A message whose blocks are texts and tools to use is rebuilt of its events.
LEMMA EventsRebuild ==
  ASSUME NEW c, Len(c) \in Nat, c = [i \in 1 .. Len(c) |-> c[i]], NEW reason, NEW tokens,
         \A i \in 1 .. Len(c) :
           (\E t : c[i] = TextBlock(t)) \/ (\E id, input : c[i] = ToolUse(id, input))
  PROVE  LET m == [content |-> c, stop_reason |-> reason, output_tokens |-> tokens]
         IN Replayed(Events(m)) = m
<1> DEFINE m == [content |-> c, stop_reason |-> reason, output_tokens |-> tokens]
           N == Len(c)
           e == Events(m)
           B(i) == BlockEvents(c[i], i)
<1>1. m.content = c
  OBVIOUS
<1>2. StartEvent = [event |-> "message_start", message |-> Partial(c, 0)]
  <2>1. [j \in 1 .. 0 |-> c[j]] = <<>>
    OBVIOUS
  <2> QED BY <2>1 DEF StartEvent, Partial
<1>3. /\ EndEvents(m)[1] = [event |-> "message_delta", stop_reason |-> reason, output_tokens |-> tokens]
      /\ EndEvents(m)[2] = [event |-> "message_stop"]
  BY DEF EndEvents
<1> HIDE DEF m
<1>4. /\ Len(e) = 3 * N + 3 /\ e[1] = StartEvent
      /\ \A i \in 1 .. N : e[3 * i - 1] = B(i)[1] /\ e[3 * i] = B(i)[2] /\ e[3 * i + 1] = B(i)[3]
      /\ e[3 * N + 2] = EndEvents(m)[1] /\ e[3 * N + 3] = EndEvents(m)[2]
  BY <1>1, EventsPlaced
<1>5. N \in Nat
  OBVIOUS
<1> HIDE DEF N, e, B
<1>6. Len(e) \in Nat
  BY <1>4, <1>5
<1>7. PICK after : /\ Replayed(e) = after[Len(e)] /\ after[0] = Null
                   /\ \A k \in 1 .. Len(e) : after[k] = Applied(after[k - 1], e[k])
  BY <1>6, AfterDefined
<1>8. \A k \in 1 .. 3 * N + 3 : after[k] = Applied(after[k - 1], e[k])
  BY <1>4, <1>7
<1> DEFINE P == {k \in 0 .. N : after[3 * k + 1] = Partial(c, k)}
<1>9. 0 \in P
  <2>1. after[1] = Applied(after[0], e[1])
    <3>1. 1 \in 1 .. 3 * N + 3 /\ 1 - 1 = 0
      BY <1>5
    <3> QED BY <1>8, <3>1
  <2>2. Applied(after[0], StartEvent) = Partial(c, 0)
    BY <1>2 DEF Applied
  <2>3. 0 \in 0 .. N /\ 3 * 0 + 1 = 1
    BY <1>5
  <2> QED BY <1>4, <2>1, <2>2, <2>3
<1>10. ASSUME NEW k \in 1 .. N, k - 1 \in P
       PROVE  k \in P
  <2>1. after[3 * (k - 1) + 1] = Partial(c, k - 1)
    BY <1>10
  <2>2. 3 * (k - 1) + 1 = 3 * k - 2
    BY <1>5
  <2>3. /\ 3 * k - 1 \in 1 .. 3 * N + 3 /\ (3 * k - 1) - 1 = 3 * k - 2
        /\ 3 * k \in 1 .. 3 * N + 3
        /\ 3 * k + 1 \in 1 .. 3 * N + 3 /\ (3 * k + 1) - 1 = 3 * k
    BY <1>5
  <2>4. after[3 * k - 1] = Applied(Partial(c, k - 1), B(k)[1])
    <3>1. after[3 * k - 1] = Applied(after[(3 * k - 1) - 1], e[3 * k - 1])
      BY <1>8, <2>3
    <3>2. after[(3 * k - 1) - 1] = Partial(c, k - 1)
      BY <2>1, <2>2, <2>3
    <3>3. e[3 * k - 1] = B(k)[1]
      BY <1>4
    <3> QED BY <3>1, <3>2, <3>3
  <2>5. after[3 * k] = Applied(after[3 * k - 1], B(k)[2])
    BY <1>4, <1>8, <2>3
  <2>6. after[3 * k + 1] = Applied(after[3 * k], B(k)[3])
    BY <1>4, <1>8, <2>3
  <2>7. Filled(StartBlock(c[k]), Delta(c[k])) = c[k]
    BY BlockFilled DEF N
  <2>8. k - 1 \in Nat /\ (k - 1) + 1 = k
    BY <1>5
  <2>9. Applied(Applied(Applied(Partial(c, k - 1), B(k)[1]), B(k)[2]), B(k)[3]) = Partial(c, k)
    BY <2>7, <2>8, BlockReplayed DEF B
  <2>10. k \in 0 .. N
    BY <1>5
  <2> QED BY <2>4, <2>5, <2>6, <2>9, <2>10
<1>11. after[3 * N + 1] = Partial(c, N)
  <2> HIDE DEF P
  <2>1. \A k \in 0 .. N : k \in P
    BY <1>5, <1>9, <1>10, HoldsUpTo
  <2> QED BY <1>5, <2>1 DEF P
<1>12. Partial(c, N) = [content |-> c, stop_reason |-> Null, output_tokens |-> 0]
  BY DEF Partial, N
<1>13. after[3 * N + 2] = m
  <2>1. 3 * N + 2 \in 1 .. 3 * N + 3 /\ (3 * N + 2) - 1 = 3 * N + 1
    BY <1>5
  <2>2. after[3 * N + 2] = Applied(Partial(c, N), EndEvents(m)[1])
    BY <1>4, <1>8, <1>11, <2>1
  <2>3. Applied(Partial(c, N), EndEvents(m)[1])
          = [content |-> c, stop_reason |-> reason, output_tokens |-> tokens]
    BY <1>3, <1>12 DEF Applied
  <2> QED BY <2>2, <2>3 DEF m
<1>14. after[3 * N + 3] = m
  <2>1. 3 * N + 3 \in 1 .. 3 * N + 3 /\ (3 * N + 3) - 1 = 3 * N + 2
    BY <1>5
  <2>2. after[3 * N + 3] = Applied(m, EndEvents(m)[2])
    BY <1>4, <1>8, <1>13, <2>1
  <2> QED BY <1>3, <2>2 DEF Applied
<1> QED BY <1>4, <1>7, <1>14 DEF e, m


--------------------------------------------------------------------------------

(* The conversation. *)

\* What the bridge makes of an answer: texts of something, and tools to use;
\* where there are none of these it is one text, or nothing.
LEMMA BlocksMade ==
  ASSUME NEW r \in Reply
  PROVE  LET c == ContentBlocks(r) IN
         /\ Len(c) \in Nat /\ c = [i \in 1 .. Len(c) |-> c[i]]
         /\ \A i \in 1 .. Len(c) : \/ \E t \in {"blank", "words"} : c[i] = TextBlock(t)
                                  \/ \E id, input : c[i] = ToolUse(id, input)
         /\ \/ c = <<>>
            \/ \E i \in 1 .. Len(c) : c[i].type = "tool_use"
            \/ \E t \in {"blank", "words"} : c = <<TextBlock(t)>>
<1> DEFINE U(i) == ToolUse(IF r.named THEN <<"upstream", i>> ELSE <<"lmml", i>>,
                          ParsedArguments(r.calls[i]))
           a == IF r.text \in {Null, "empty"} THEN <<>> ELSE <<TextBlock(r.text)>>
           b == [i \in DOMAIN r.calls |-> U(i)]
           c == ContentBlocks(r)
           S == {TextBlock(r.text)} \union {U(i) : i \in DOMAIN r.calls}
           Good(x) == \/ \E t \in {"blank", "words"} : x = TextBlock(t)
                      \/ \E id, input : x = ToolUse(id, input)
<1>1. r.calls \in Seq(CallText) /\ r.text \in Text \union {Null}
  BY BridgeAssumption
<1>2. Len(r.calls) \in Nat /\ DOMAIN r.calls = 1 .. Len(r.calls)
  BY <1>1
<1>3. c = a \o b
  BY DEF ContentBlocks
<1>4. b \in Seq(S) /\ Len(b) = Len(r.calls) /\ \A i \in 1 .. Len(b) : b[i] = U(i)
  <2>1. \A i \in DOMAIN r.calls : U(i) \in S
    OBVIOUS
  <2> HIDE DEF S, U
  <2> QED BY <1>2, <2>1
<1>5. \A i : U(i).type = "tool_use" /\ Good(U(i))
  BY DEF ToolUse
<1>6. a \in Seq(S) /\ (a = <<>> \/ (a = <<TextBlock(r.text)>> /\ r.text \in {"blank", "words"}))
  <2>1. TextBlock(r.text) \in S
    OBVIOUS
  <2>2. a = <<>> \/ (a = <<TextBlock(r.text)>> /\ r.text \in {"blank", "words"})
    BY <1>1 DEF Text
  <2>3. a = <<>> \/ a = <<TextBlock(r.text)>>
    BY <2>2
  <2> HIDE DEF S, a
  <2>4. a \in Seq(S)
    <3>1. CASE a = <<>>
      BY <3>1
    <3>2. CASE a = <<TextBlock(r.text)>>
      <4> DEFINE x == TextBlock(r.text)
      <4>1. a = <<x>> /\ x \in S
        BY <2>1, <3>2
      <4> HIDE DEF x
      <4> QED BY <4>1
    <3> QED BY <2>3, <3>1, <3>2
  <2> QED BY <2>2, <2>4
<1> HIDE DEF S, U, a, b, c
<1>7. /\ c \in Seq(S) /\ Len(c) = Len(a) + Len(b) /\ Len(a) \in Nat /\ Len(b) \in Nat
      /\ \A i \in 1 .. Len(a) : c[i] = a[i]
      /\ \A i \in 1 .. Len(b) : c[Len(a) + i] = b[i]
  <2>1. a \in Seq(S) /\ b \in Seq(S)
    BY <1>4, <1>6
  <2>2. /\ a \o b \in Seq(S) /\ Len(a \o b) = Len(a) + Len(b) /\ Len(a) \in Nat /\ Len(b) \in Nat
        /\ \A i \in 1 .. Len(a) : (a \o b)[i] = a[i]
        /\ \A i \in 1 .. Len(b) : (a \o b)[Len(a) + i] = b[i]
    BY ONLY <2>1, Joined
  <2> QED BY <1>3, <2>2
<1>8. Len(c) \in Nat /\ c = [i \in 1 .. Len(c) |-> c[i]]
  BY <1>7
<1>9. \A i \in 1 .. Len(a) : Good(a[i])
  BY <1>6
<1>10. ASSUME NEW i \in 1 .. Len(c)
       PROVE  Good(c[i])
  <2> HIDE DEF Good
  <2>1. CASE i <= Len(a)
    <3>1. i \in 1 .. Len(a)
      BY <1>7, <2>1
    <3> QED BY <1>7, <1>9, <3>1
  <2>2. CASE i > Len(a)
    <3>1. i - Len(a) \in 1 .. Len(b) /\ Len(a) + (i - Len(a)) = i
      BY <1>7, <2>2
    <3>2. c[i] = U(i - Len(a))
      <4>1. c[Len(a) + (i - Len(a))] = b[i - Len(a)]
        BY <1>7, <3>1
      <4>2. b[i - Len(a)] = U(i - Len(a))
        BY <1>4, <3>1
      <4> QED BY <3>1, <4>1, <4>2
    <3> QED BY <1>5, <3>2
  <2>3. i <= Len(a) \/ i > Len(a)
    BY <1>7
  <2> QED BY <2>1, <2>2, <2>3
<1>11. \/ c = <<>>
       \/ \E i \in 1 .. Len(c) : c[i].type = "tool_use"
       \/ \E t \in {"blank", "words"} : c = <<TextBlock(t)>>
  <2>1. CASE Len(b) = 0
    <3>1. b = <<>>
      BY <1>4, <2>1
    <3>2. c = a
      BY <1>3, <1>6, <3>1
    <3> QED BY <1>6, <3>2
  <2>2. CASE Len(b) # 0
    <3>1. 1 \in 1 .. Len(b) /\ Len(a) + 1 \in 1 .. Len(c)
      BY <1>7, <2>2
    <3>2. c[Len(a) + 1] = U(1)
      BY <1>4, <1>7, <3>1
    <3> QED BY <1>5, <3>1, <3>2
  <2> QED BY <2>1, <2>2
<1> QED BY <1>8, <1>10, <1>11 DEF c

\* The stream of an answer's message rebuilds it.
LEMMA MappedRebuilds ==
  ASSUME NEW r \in Reply
  PROVE  Replayed(Events(Mapped(r))) = Mapped(r)
<1> DEFINE c == ContentBlocks(r)
<1>1. /\ Len(c) \in Nat /\ c = [i \in 1 .. Len(c) |-> c[i]]
      /\ \A i \in 1 .. Len(c) :
           (\E t : c[i] = TextBlock(t)) \/ (\E id, input : c[i] = ToolUse(id, input))
  BY BlocksMade
<1>2. Mapped(r)
        = [content |-> c, stop_reason |-> StopReason(r.finish, c), output_tokens |-> r.tokens]
  BY DEF Mapped
<1> HIDE DEF c
<1> QED BY <1>1, <1>2, EventsRebuild

\* What the client sends back is not refused, or it is one of the two kinds that are.
SentBack(m) ==
  \/ Appended(m).ok
  \/ m.content = Blocks(<<TextBlock("blank")>>)
  \/ m.content = Blocks(<<>>)

\* A content without tool results is all of its contents.
LEMMA FlatContents ==
  ASSUME NEW content, \A i \in DOMAIN content.blocks : content.blocks[i].type # "tool_result"
  PROVE  Contents(content) \subseteq {content}
<1>1. Nested({content}) \subseteq {content}
  BY DEF Nested
<1> QED BY <1>1, ContentsWithin

LEMMA AnswerSentBack ==
  ASSUME NEW r \in Reply
  PROVE  SentBack(Message("assistant", Blocks(ContentBlocks(r))))
<1> DEFINE c == ContentBlocks(r)
           content == Blocks(c)
           m == Message("assistant", content)
<1>1. /\ Len(c) \in Nat /\ DOMAIN c = 1 .. Len(c)
      /\ \A i \in 1 .. Len(c) : \/ \E t \in {"blank", "words"} : c[i] = TextBlock(t)
                               \/ \E id, input : c[i] = ToolUse(id, input)
      /\ \/ c = <<>>
         \/ \E i \in 1 .. Len(c) : c[i].type = "tool_use"
         \/ \E t \in {"blank", "words"} : c = <<TextBlock(t)>>
  BY BlocksMade
<1> HIDE DEF c
<1>2. content.blocks = c /\ content.text = Null
  BY DEF Blocks
<1>3. \A i \in 1 .. Len(c) : CanBeSent(c[i]) /\ c[i].type # "tool_result"
  BY <1>1 DEF CanBeSent, TextBlock, ToolUse
<1>4. m.role = "assistant" /\ m.content = content
  BY DEF Message
<1> HIDE DEF m, content
<1>5. ContentOk(content)
  <2>1. Contents(content) \subseteq {content}
    BY <1>1, <1>2, <1>3, FlatContents
  <2> QED BY <1>1, <1>2, <1>3, <2>1 DEF ContentOk
<1>6. HasWords(content) => Appended(m).ok
  BY <1>4, <1>5 DEF Appended
<1>7. ASSUME c = <<>>
      PROVE  SentBack(m)
  <2>1. content = Blocks(<<>>)
    BY <1>7 DEF content
  <2> QED BY <1>4, <2>1 DEF SentBack
<1>8. ASSUME \E i \in 1 .. Len(c) : c[i].type = "tool_use"
      PROVE  SentBack(m)
  <2>1. HasWords(content)
    BY <1>1, <1>2, <1>8 DEF HasWords, Shows
  <2> QED BY <1>6, <2>1 DEF SentBack
<1>9. ASSUME \E t \in {"blank", "words"} : c = <<TextBlock(t)>>
      PROVE  SentBack(m)
  <2>1. CASE c = <<TextBlock("blank")>>
    <3>1. content = Blocks(<<TextBlock("blank")>>)
      BY <2>1 DEF content
    <3> QED BY <1>4, <3>1 DEF SentBack
  <2>2. CASE c = <<TextBlock("words")>>
    <3>1. DOMAIN c = {1} /\ c[1] = TextBlock("words")
      BY <2>2
    <3>2. Shows(c[1])
      BY <3>1 DEF Shows, TextBlock
    <3>3. HasWords(content)
      BY <1>2, <3>1, <3>2 DEF HasWords
    <3> QED BY <1>6, <3>3 DEF SentBack
  <2> QED BY <1>9, <2>1, <2>2
<1>10. SentBack(m)
  BY <1>1, <1>7, <1>8, <1>9
<1> QED BY <1>10 DEF m, content, c

\* A message of the client's is not refused, but for the empty results of no tool.
LEMMA NextSentBack ==
  ASSUME NEW m, Cardinality(Uses(m.content)) \in Nat
  PROVE  SentBack(NextMessage(m)) /\ NextMessage(m).role = "user"
<1>1. CASE m.stop_reason = "tool_use"
  <2> DEFINE n == Cardinality(Uses(m.content))
             c == [i \in 1 .. n |-> ToolResult(Plain("empty"))]
             content == Blocks(c)
             x == Message("user", content)
  <2>1. NextMessage(m) = x
    BY <1>1 DEF NextMessage
  <2>2. x.role = "user" /\ x.content = content
    BY DEF Message
  <2>3. content.blocks = c /\ content.text = Null
    BY DEF Blocks
  <2>4. /\ Plain("empty").blocks = <<>> /\ DOMAIN <<>> = {}
        /\ ToolResult(Plain("empty")).type = "tool_result"
        /\ ToolResult(Plain("empty")).content = Plain("empty")
    BY DEF Plain, ToolResult
  <2>5. n \in Nat /\ DOMAIN c = 1 .. n /\ \A i \in 1 .. n : c[i] = ToolResult(Plain("empty"))
    OBVIOUS
  <2> HIDE DEF n, c, x
  <2>6. CASE n = 0
    <3>1. c = <<>>
      BY <2>6 DEF c
    <3> QED BY <2>1, <2>2, <3>1 DEF SentBack
  <2>7. CASE n # 0
    <3> HIDE DEF content
    <3> DEFINE S == {content, Plain("empty")}
    <3>1. Nested(S) \subseteq S
      BY <2>3, <2>4, <2>5 DEF Nested
    <3>2. Contents(content) \subseteq S
      <4>1. content \in S
        OBVIOUS
      <4> HIDE DEF S
      <4> QED BY <3>1, <4>1, ContentsWithin
    <3>3. ContentOk(content)
      BY <2>3, <2>4, <2>5, <3>2 DEF ContentOk, CanBeSent
    <3>4. 1 \in DOMAIN c /\ Shows(c[1])
      BY <2>4, <2>5, <2>7 DEF Shows
    <3>5. HasWords(content)
      BY <2>3, <3>4 DEF HasWords
    <3> QED BY <2>1, <2>2, <3>3, <3>5 DEF SentBack, Appended
  <2> QED BY <2>1, <2>2, <2>6, <2>7
<1>2. CASE m.stop_reason # "tool_use"
  <2> DEFINE content == Plain("words")
             x == Message("user", content)
  <2>1. NextMessage(m) = x
    BY <1>2 DEF NextMessage
  <2>2. x.role = "user" /\ x.content = content
    BY DEF Message
  <2>3. content.text = "words" /\ content.blocks = <<>> /\ DOMAIN <<>> = {}
    BY DEF Plain
  <2>4. "words" # Null
    BY BridgeAssumption DEF Text
  <2> HIDE DEF x, content
  <2>5. Contents(content) \subseteq {content}
    BY <2>3, FlatContents
  <2>6. ContentOk(content) /\ HasWords(content)
    BY <2>3, <2>4, <2>5 DEF ContentOk, HasWords
  <2> QED BY <2>1, <2>2, <2>6 DEF SentBack, Appended
<1> QED BY <1>1, <1>2


\* A conversation is kept: its end is the user's, what the bridge has accepted
\* once stays what it accepts, and an answer is one that it made.
TalkKept ==
  /\ Len(talk) \in Nat \ {0} /\ talk = [i \in 1 .. Len(talk) |-> talk[i]]
  /\ talk[Len(talk)].role = "user"

TalkAccepted ==
  /\ Len(talk) > 1 \/ bridge \in {"upstream", "answer"} =>
       Appended(talk[1]).ok /\ ToolsValid(asked) /\ asked.choice # "malformed"
  /\ \A i \in 2 .. Len(talk) : SentBack(talk[i])

AnswerMade == bridge = "answer" => \E r \in Reply : message = Mapped(r)

BridgeIInv == TalkKept /\ TalkAccepted /\ AnswerMade /\ ConversationGoesOn /\ ToolsAreRun

LEMMA BridgeIInvInit == BridgeInit => BridgeIInv
<1> SUFFICES ASSUME BridgeInit
             PROVE  BridgeIInv
  OBVIOUS
<1>1. PICK p \in Prompt : talk = <<Message("user", p)>>
  BY DEF BridgeInit
<1>2. Len(talk) = 1 /\ talk[1].role = "user" /\ talk = [i \in 1 .. 1 |-> talk[i]]
  BY <1>1 DEF Message
<1>3. bridge = "request"
  BY DEF BridgeInit
<1>4. ~(1 > 1) /\ 2 .. 1 = {} /\ 1 .. 1 - 1 = {} /\ 1 \in Nat \ {0}
  OBVIOUS
<1>5. TalkKept
  BY <1>2, <1>4 DEF TalkKept
<1>6. TalkAccepted
  BY <1>2, <1>3, <1>4 DEF TalkAccepted
<1>7. AnswerMade /\ ConversationGoesOn
  BY <1>3 DEF AnswerMade, ConversationGoesOn
<1>8. ToolsAreRun
  BY <1>2, <1>4 DEF ToolsAreRun
<1> QED BY <1>5, <1>6, <1>7, <1>8 DEF BridgeIInv

\* The first request is accepted as a whole or refused; a later one has parts of
\* the client's that are refused only where they are of the two kinds.
LEMMA BuildChatKeeps ==
  ASSUME BridgeIInv, BuildChat
  PROVE  BridgeIInv'
<1>1. talk' = talk /\ asked' = asked /\ bridge = "request" /\ bridge' \in {"upstream", "refused"}
  BY DEF BuildChat
<1>2. TalkKept' /\ ToolsAreRun'
  BY <1>1 DEF BridgeIInv, TalkKept, ToolsAreRun
<1>3. Len(talk) \in Nat \ {0} /\ DOMAIN talk = 1 .. Len(talk)
  BY DEF BridgeIInv, TalkKept
<1>4. talk # <<>>
  BY <1>3
<1>5. bridge' = "upstream" =>
        /\ \A i \in DOMAIN talk : Appended(talk[i]).ok
        /\ ToolsValid(asked) /\ asked.choice # "malformed"
  BY DEF BuildChat
<1>6. bridge' = "refused" =>
        ~ /\ \A i \in DOMAIN talk : Appended(talk[i]).ok
          /\ ToolsValid(asked) /\ asked.choice # "malformed"
  BY <1>4 DEF BuildChat
<1>7. TalkAccepted
  BY DEF BridgeIInv
<1>8. TalkAccepted'
  <2>1. /\ Len(talk') > 1 \/ bridge' \in {"upstream", "answer"} =>
             Appended(talk[1]).ok /\ ToolsValid(asked) /\ asked.choice # "malformed"
        /\ \A i \in 2 .. Len(talk') : SentBack(talk[i])
    BY <1>1, <1>3, <1>5, <1>7 DEF TalkAccepted
  <2> QED BY <1>1, <2>1 DEF TalkAccepted
<1>9. AnswerMade'
  BY <1>1 DEF AnswerMade
<1>10. ASSUME bridge' = "refused", Len(talk) > 1
       PROVE  \E i \in 2 .. Len(talk) : \/ talk[i].content = Blocks(<<TextBlock("blank")>>)
                                       \/ talk[i].content = Blocks(<<>>)
  <2>1. Appended(talk[1]).ok /\ ToolsValid(asked) /\ asked.choice # "malformed"
    BY <1>7, <1>10 DEF TalkAccepted
  <2>2. PICK i \in 1 .. Len(talk) : ~Appended(talk[i]).ok
    BY <1>3, <1>6, <1>10, <2>1
  <2>3. i \in 2 .. Len(talk)
    <3>1. i # 1
      BY <2>1, <2>2
    <3> QED BY <1>3, <3>1
  <2>4. SentBack(talk[i])
    BY <1>7, <2>3 DEF TalkAccepted
  <2> QED BY <2>2, <2>3, <2>4 DEF SentBack
<1>11. ConversationGoesOn'
  BY <1>1, <1>10 DEF ConversationGoesOn
<1> QED BY <1>2, <1>8, <1>9, <1>11 DEF BridgeIInv

LEMMA AnswerKeeps ==
  ASSUME BridgeIInv,
         UpstreamFails \/ \E r \in Reply : UpstreamAnswers(r)
  PROVE  BridgeIInv'
<1>1. /\ talk' = talk /\ asked' = asked /\ bridge = "upstream" /\ bridge' \in {"answer", "failed"}
      /\ bridge' = "answer" => \E r \in Reply : message' = Mapped(r)
  BY DEF UpstreamFails, UpstreamAnswers
<1>2. TalkKept' /\ ToolsAreRun'
  BY <1>1 DEF BridgeIInv, TalkKept, ToolsAreRun
<1>3. TalkAccepted'
  BY <1>1 DEF BridgeIInv, TalkAccepted
<1>4. AnswerMade' /\ ConversationGoesOn'
  BY <1>1 DEF AnswerMade, ConversationGoesOn
<1> QED BY <1>2, <1>3, <1>4 DEF BridgeIInv

\* The client goes on with the message of the answer, however it was sent.
LEMMA GoesOnKeeps ==
  ASSUME BridgeIInv, ClientGoesOn
  PROVE  BridgeIInv'
<1> DEFINE n == Len(talk)
           blocks == message.content
           a == Message("assistant", Blocks(blocks))
           b == NextMessage(message)
<1>1. PICK r \in Reply : message = Mapped(r)
  BY DEF ClientGoesOn, BridgeIInv, AnswerMade
<1>2. Replayed(Events(message)) = message
  BY <1>1, MappedRebuilds
<1>3. talk' = talk \o <<a, b>>
  BY <1>2 DEF ClientGoesOn
<1>4. asked' = asked /\ bridge = "answer" /\ bridge' \in {"done", "request"}
  BY DEF ClientGoesOn
<1>5. blocks = ContentBlocks(r) /\ message.stop_reason = StopReason(r.finish, blocks)
  BY <1>1 DEF Mapped
<1>6. SentBack(a) /\ a.role = "assistant" /\ a.content.blocks = blocks
  <2>1. SentBack(a)
    BY <1>5, AnswerSentBack
  <2> QED BY <2>1 DEF Message, Blocks
<1>7. Cardinality(Uses(blocks)) \in Nat
  <2>1. Len(blocks) \in Nat /\ DOMAIN blocks = 1 .. Len(blocks)
    BY <1>5, BlocksMade
  <2>2. IsFiniteSet(1 .. Len(blocks))
    BY <2>1, FS_Interval
  <2>3. Uses(blocks) \subseteq 1 .. Len(blocks)
    BY <2>1 DEF Uses
  <2>4. IsFiniteSet(Uses(blocks))
    BY <2>2, <2>3, FS_Subset
  <2> QED BY <2>4, FS_CardinalityType
<1>8. SentBack(b) /\ b.role = "user"
  BY <1>7, NextSentBack
<1>9. Uses(blocks) # {} => Len(b.content.blocks) = Cardinality(Uses(blocks))
  <2>1. SUFFICES ASSUME Uses(blocks) # {}
                 PROVE  Len(b.content.blocks) = Cardinality(Uses(blocks))
    OBVIOUS
  <2>2. HasToolUse(blocks)
    BY <2>1 DEF HasToolUse, Uses
  <2>3. message.stop_reason = "tool_use"
    BY <1>5, <2>2 DEF StopReason
  <2> DEFINE k == Cardinality(Uses(blocks))
             c == [i \in 1 .. k |-> ToolResult(Plain("empty"))]
  <2>4. b = Message("user", Blocks(c))
    BY <2>3 DEF NextMessage
  <2>5. b.content.blocks = c
    <3> HIDE DEF b, c
    <3> QED BY <2>4 DEF Message, Blocks
  <2>6. Len(c) = k
    <3>1. k \in Nat
      BY <1>7
    <3> HIDE DEF k
    <3> QED BY <3>1
  <2> QED BY <2>5, <2>6
<1>10. TalkKept /\ TalkAccepted /\ ToolsAreRun
  BY DEF BridgeIInv
<1>11. n \in Nat \ {0} /\ talk = [i \in 1 .. n |-> talk[i]] /\ talk[n].role = "user"
  BY <1>10 DEF TalkKept
<1> DEFINE S == {talk[i] : i \in 1 .. n} \union {a, b}
<1>12. talk \in Seq(S)
  <2>1. \A i \in 1 .. n : talk[i] \in S
    OBVIOUS
  <2> HIDE DEF S, n
  <2> QED BY <1>11, <2>1
<1>13. <<a, b>> \in Seq(S) /\ Len(<<a, b>>) = 2 /\ <<a, b>>[1] = a /\ <<a, b>>[2] = b
  <2>1. a \in S /\ b \in S
    OBVIOUS
  <2> HIDE DEF S, a, b
  <2> QED BY <2>1, Pair
<1>14. Appended(talk[1]).ok /\ ToolsValid(asked) /\ asked.choice # "malformed"
  BY <1>4, <1>10 DEF TalkAccepted
<1> HIDE DEF S, a, b, n, blocks
<1>15. /\ talk' \in Seq(S) /\ Len(talk') = n + 2
       /\ \A i \in 1 .. n : talk'[i] = talk[i]
       /\ talk'[n + 1] = a /\ talk'[n + 2] = b
  <2> DEFINE s == talk
             t == <<a, b>>
  <2>1. s \in Seq(S) /\ t \in Seq(S) /\ Len(s) = n /\ Len(t) = 2 /\ t[1] = a /\ t[2] = b
    BY <1>12, <1>13 DEF n
  <2> HIDE DEF s, t
  <2>2. /\ s \o t \in Seq(S) /\ Len(s \o t) = Len(s) + Len(t)
        /\ \A i \in 1 .. Len(s) : (s \o t)[i] = s[i]
        /\ \A i \in 1 .. Len(t) : (s \o t)[Len(s) + i] = t[i]
    <3>1. s \in Seq(S) /\ t \in Seq(S)
      BY <2>1
    <3> QED BY ONLY <3>1, Joined
  <2>3. talk' = s \o t
    BY <1>3 DEF s, t
  <2>4. 1 \in 1 .. 2 /\ 2 \in 1 .. 2
    OBVIOUS
  <2> QED BY <2>1, <2>2, <2>3, <2>4 DEF s
<1>16. /\ \A i \in 1 .. n + 2 : i \in 1 .. n \/ i = n + 1 \/ i = n + 2
       /\ \A i \in 1 .. n : i \in 1 .. n - 1 \/ i = n
       /\ n + 2 > 1 /\ 1 \in 1 .. n /\ (n + 2) - 1 = n + 1 /\ (n + 1) + 1 = n + 2
       /\ \A i \in 2 .. n + 2 : i \in 2 .. n \/ i = n + 1 \/ i = n + 2
       /\ \A i \in 2 .. n : i \in 1 .. n
       /\ \A i \in 1 .. n + 1 : i \in 1 .. n - 1 \/ i = n \/ i = n + 1
       /\ \A i \in 1 .. n - 1 : i \in 1 .. n /\ i + 1 \in 1 .. n
  BY <1>11
<1>17. TalkKept'
  <2>1. Len(talk') \in Nat \ {0} /\ talk'[Len(talk')].role = "user"
    BY <1>8, <1>11, <1>15
  <2>2. talk' = [i \in 1 .. Len(talk') |-> talk'[i]]
    BY <1>15
  <2> QED BY <2>1, <2>2 DEF TalkKept
<1>18. TalkAccepted'
  <2>1. talk'[1] = talk[1]
    BY <1>15, <1>16
  <2>2. ASSUME NEW i \in 2 .. n + 2
        PROVE  SentBack(talk'[i])
    <3>1. CASE i \in 2 .. n
      <4>1. SentBack(talk[i]) /\ talk'[i] = talk[i]
        BY <1>10, <1>15, <1>16, <3>1 DEF TalkAccepted, n
      <4> QED BY <4>1
    <3>2. CASE i = n + 1
      BY <1>6, <1>15, <3>2
    <3>3. CASE i = n + 2
      BY <1>8, <1>15, <3>3
    <3> QED BY <1>16, <3>1, <3>2, <3>3
  <2>3. \A i \in 2 .. Len(talk') : SentBack(talk'[i])
    BY <1>15, <2>2
  <2> QED BY <1>4, <1>14, <2>1, <2>3 DEF TalkAccepted
<1>19. AnswerMade' /\ ConversationGoesOn'
  BY <1>4 DEF AnswerMade, ConversationGoesOn
<1>20. ASSUME NEW i \in 1 .. n + 1, talk'[i].role = "assistant",
              Uses(talk'[i].content.blocks) # {}
       PROVE  Len(talk'[i + 1].content.blocks) = Cardinality(Uses(talk'[i].content.blocks))
  <2>1. CASE i \in 1 .. n - 1
    <3>1. talk'[i] = talk[i] /\ talk'[i + 1] = talk[i + 1]
      BY <1>15, <1>16, <2>1
    <3> QED BY <1>10, <1>20, <2>1, <3>1 DEF ToolsAreRun, n
  <2>2. CASE i = n
    <3>1. talk'[i].role = "user"
      BY <1>11, <1>15, <1>16, <2>2
    <3> QED BY <1>20, <3>1
  <2>3. CASE i = n + 1
    <3>1. talk'[i].content.blocks = blocks /\ talk'[i + 1] = b
      BY <1>6, <1>15, <1>16, <2>3
    <3> QED BY <1>9, <1>20, <3>1
  <2> QED BY <1>16, <2>1, <2>2, <2>3
<1>21. ToolsAreRun'
  <2>1. Len(talk') - 1 = n + 1
    BY <1>11, <1>15
  <2> QED BY <1>20, <2>1 DEF ToolsAreRun
<1> QED BY <1>17, <1>18, <1>19, <1>21 DEF BridgeIInv

\* Nothing is lost between the two protocols, and a conversation can go on: the
\* stream of a message rebuilds it, what the bridge makes it takes as history,
\* and each tool of an answer gets its result.  The code is /v1/messages.
THEOREM BridgeCorrect == BridgeSpec => []BridgeInv
<1>1. BridgeIInv /\ [BridgeNext]_bridgeVars => BridgeIInv'
  <2> SUFFICES ASSUME BridgeIInv, [BridgeNext]_bridgeVars
               PROVE  BridgeIInv'
    OBVIOUS
  <2>1. CASE BuildChat
    BY <2>1, BuildChatKeeps
  <2>2. CASE UpstreamFails \/ \E r \in Reply : UpstreamAnswers(r)
    BY <2>2, AnswerKeeps
  <2>3. CASE ClientGoesOn
    BY <2>3, GoesOnKeeps
  <2>4. CASE UNCHANGED bridgeVars
    BY <2>4 DEF bridgeVars, BridgeIInv, TalkKept, TalkAccepted, AnswerMade, ConversationGoesOn,
                ToolsAreRun
  <2> QED BY <2>1, <2>2, <2>3, <2>4 DEF BridgeNext
<1>2. BridgeIInv => BridgeInv
  <2>1. ASSUME BridgeIInv, bridge = "answer"
        PROVE  Replayed(Events(message)) = message
    <3>1. PICK r \in Reply : message = Mapped(r)
      BY <2>1 DEF BridgeIInv, AnswerMade
    <3> QED BY <3>1, MappedRebuilds
  <2> QED BY <2>1 DEF BridgeIInv, BridgeInv, StreamRebuilds
<1> QED BY BridgeIInvInit, <1>1, <1>2, PTL DEF BridgeSpec

================================================================================
