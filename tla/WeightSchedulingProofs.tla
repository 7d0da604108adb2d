----------------------- MODULE WeightSchedulingProofs -----------------------
(***************************************************************************)
(* The safety invariants of WeightScheduling for every corpus bound and     *)
(* every number of iterations.                                              *)
(***************************************************************************)
EXTENDS WeightScheduling, TLAPS, FiniteSetTheorems

(* Only testcases of the corpus carry a weight or a factor. *)
WeightsInCorpus == \A id \in 1..MaxCorpus : weight[id] # None \/ factor[id] # None => id \in Ids

(* The snapshot of a live worker holds every testcase that has a weight: the *)
(* publication then replaces all weights at once.  It is never empty.        *)
SnapshotHoldsWeights ==
  worker # None => /\ worker.ids # {}
                   /\ \A id \in 1..MaxCorpus : weight[id] # None => id \in worker.ids

(* A valid table without a dirty mark was built after the last publication.  *)
TableIsFresh == ~table_invalidated /\ ~dirty => table.stats = stats

(* The inductive invariant. *)
IInv ==
  /\ TypeOK
  /\ TableHoldsCorpus
  /\ WeightsInCorpus
  /\ SnapshotHoldsWeights
  /\ TableIsFresh
  /\ PicksFollowPublication
  /\ WeightsOfOnePublication
  /\ FactorsAreCurrent

USE SchedulingAssumption

(* Initially there are no weights, no factors, no worker and no table.       *)
LEMMA InitIInv == Init => IInv
<1> SUFFICES ASSUME Init PROVE IInv
  OBVIOUS
<1>1. TypeOK
  <2>1. weight \in [1..MaxCorpus -> 1..MaxIteration \union {None}]
    BY DEF Init
  <2>2. factor \in [1..MaxCorpus -> 0..MaxIteration \union {None}]
    BY DEF Init
  <2>3. table.ids \subseteq Ids
    BY DEF Init
  <2>4. current = None /\ stage = "next" /\ worker = None /\ stats = None
    BY DEF Init
  <2>5. corpus \in 1..MaxCorpus /\ iteration \in 0..MaxIteration
    BY DEF Init
  <2>6. features_active \in BOOLEAN /\ dirty \in BOOLEAN /\ table_invalidated \in BOOLEAN
    BY DEF Init
  <2> QED BY <2>1, <2>2, <2>3, <2>4, <2>5, <2>6 DEF TypeOK, Stages
<1>2. TableHoldsCorpus /\ TableIsFresh /\ PicksFollowPublication /\ SnapshotHoldsWeights
  BY DEF Init, TableHoldsCorpus, TableIsFresh, PicksFollowPublication, SnapshotHoldsWeights
<1>3. WeightsInCorpus /\ WeightsOfOnePublication /\ FactorsAreCurrent
  BY DEF Init, WeightsInCorpus, WeightsOfOnePublication, FactorsAreCurrent, Ids
<1> QED BY <1>1, <1>2, <1>3 DEF IInv

(* The number of testcases in a snapshot is a positive number up to the      *)
(* bound, so the statistics of a publication have their type.                *)
LEMMA SnapshotSize ==
  ASSUME NEW ids \in SUBSET (1..MaxCorpus), ids # {}
  PROVE  Cardinality(ids) \in 1..MaxCorpus
<1>1. IsFiniteSet(1..MaxCorpus) /\ Cardinality(1..MaxCorpus) = MaxCorpus
  BY FS_Interval
<1>2. IsFiniteSet(ids) /\ Cardinality(ids) <= MaxCorpus
  BY <1>1, FS_Subset
<1>3. Cardinality(ids) \in Nat /\ Cardinality(ids) # 0
  BY <1>2, FS_CardinalityType, FS_EmptySet
<1> QED BY <1>2, <1>3

(* The stages that leave weights and statistics alone. *)
LEMMA SchedulerStep == IInv /\ SchedulerNext => IInv'
<1> SUFFICES ASSUME IInv, SchedulerNext PROVE IInv'
  OBVIOUS
<1>1. TypeOK'
  <2>1. table'.ids \subseteq Ids
    BY DEF IInv, TypeOK, SchedulerNext, create_alias_table
  <2>2. current' \in Ids /\ current' # None /\ stage' = "calibration" /\ dirty' = FALSE
    BY DEF IInv, TypeOK, SchedulerNext, dirty_after_next, Ids
  <2> QED BY <2>1, <2>2 DEF IInv, TypeOK, SchedulerNext, Ids, Stages
<1>2. table.stats = stats \/ table' = create_alias_table
  BY DEF IInv, SchedulerNext, must_rebuild, TableIsFresh, TypeOK
<1>3. table'.stats = stats /\ table'.ids = Ids
  BY <1>2 DEF IInv, SchedulerNext, must_rebuild, create_alias_table, TableIsFresh, TableHoldsCorpus, TypeOK
<1>4. (TableHoldsCorpus /\ TableIsFresh /\ PicksFollowPublication)'
  BY <1>3 DEF SchedulerNext, TableHoldsCorpus, TableIsFresh, PicksFollowPublication, Ids
<1>5. (WeightsInCorpus /\ SnapshotHoldsWeights /\ WeightsOfOnePublication /\ FactorsAreCurrent)'
  BY DEF IInv, SchedulerNext, WeightsInCorpus, SnapshotHoldsWeights, WeightsOfOnePublication,
         FactorsAreCurrent, Ids
<1> QED BY <1>1, <1>4, <1>5 DEF IInv

LEMMA StageDoneStep ==
  IInv /\ (CalibrationDone \/ FeatStageSkipped \/ PowerDone \/ TpeWaits) => IInv'
<1> SUFFICES ASSUME IInv, CalibrationDone \/ FeatStageSkipped \/ PowerDone \/ TpeWaits
             PROVE  IInv'
  OBVIOUS
<1> USE DEF CalibrationDone, FeatStageSkipped, PowerDone, TpeWaits, TpeStageDone
<1>1. TypeOK'
  BY DEF IInv, TypeOK, Ids, Stages
<1>2. (TableHoldsCorpus /\ TableIsFresh /\ PicksFollowPublication)'
  BY DEF IInv, TableHoldsCorpus, TableIsFresh, PicksFollowPublication, Ids
<1>3. (WeightsInCorpus /\ SnapshotHoldsWeights /\ WeightsOfOnePublication /\ FactorsAreCurrent)'
  BY DEF IInv, WeightsInCorpus, SnapshotHoldsWeights, WeightsOfOnePublication, FactorsAreCurrent, Ids
<1> QED BY <1>1, <1>2, <1>3 DEF IInv

(* A new testcase has no weight; the table is invalid until the next pick.   *)
LEMMA AddTestcaseStep == IInv /\ AddTestcase => IInv'
<1> SUFFICES ASSUME IInv, AddTestcase PROVE IInv'
  OBVIOUS
<1>0. corpus \in 1..MaxCorpus /\ corpus' = corpus + 1 /\ corpus' \in 1..MaxCorpus
  BY DEF IInv, TypeOK, AddTestcase
<1>1. Ids \subseteq Ids' /\ \A id \in Ids' : id \in Ids \/ id = corpus + 1
  BY <1>0 DEF Ids
<1>2. TypeOK'
  BY <1>0, <1>1 DEF IInv, TypeOK, AddTestcase, on_add_invalidates, Stages
<1>3. corpus + 1 \in 1..MaxCorpus /\ corpus + 1 \notin Ids
  BY <1>0 DEF Ids
<1>4. weight[corpus + 1] = None /\ factor[corpus + 1] = None
  BY <1>3 DEF IInv, WeightsInCorpus
<1>5. (WeightsOfOnePublication /\ FactorsAreCurrent)'
  BY <1>1, <1>4 DEF IInv, WeightsOfOnePublication, FactorsAreCurrent, AddTestcase
<1>6. (WeightsInCorpus /\ SnapshotHoldsWeights)'
  BY <1>1 DEF IInv, WeightsInCorpus, SnapshotHoldsWeights, AddTestcase
<1>7. (TableHoldsCorpus /\ TableIsFresh /\ PicksFollowPublication)'
  BY DEF IInv, TableHoldsCorpus, TableIsFresh, PicksFollowPublication, AddTestcase, on_add_invalidates
<1> QED BY <1>2, <1>5, <1>6, <1>7 DEF IInv

(* A snapshot holds the whole corpus, hence every testcase with a weight.    *)
LEMMA StartRecomputeStep == IInv /\ StartRecompute => IInv'
<1> SUFFICES ASSUME IInv, StartRecompute PROVE IInv'
  OBVIOUS
<1> USE DEF StartRecompute, TpeStageDone
<1>1. iteration' \in 1..MaxIteration /\ Ids' = Ids
  BY DEF IInv, TypeOK, Ids
<1>2. worker' = [iteration |-> iteration', ids |-> Ids, sent |-> FALSE]
  BY DEF build_corpus_weight_snapshot
<1>3. worker' \in [iteration : 1..MaxIteration, ids : SUBSET Ids, sent : BOOLEAN]
  BY <1>1, <1>2
<1>4. TypeOK'
  BY <1>1, <1>3 DEF IInv, TypeOK, Stages
<1>5. SnapshotHoldsWeights'
  <2>1. worker'.ids = Ids
    BY <1>2
  <2>2. 1 \in Ids
    BY DEF IInv, TypeOK, Ids
  <2> QED BY <2>1, <2>2 DEF IInv, SnapshotHoldsWeights, WeightsInCorpus
<1>6. (WeightsInCorpus /\ WeightsOfOnePublication /\ FactorsAreCurrent)'
  BY <1>1 DEF IInv, WeightsInCorpus, WeightsOfOnePublication, FactorsAreCurrent
<1>7. (TableHoldsCorpus /\ TableIsFresh /\ PicksFollowPublication)'
  BY <1>1 DEF IInv, TableHoldsCorpus, TableIsFresh, PicksFollowPublication
<1> QED BY <1>4, <1>5, <1>6, <1>7 DEF IInv

(* The worker sends, or dies with the process. *)
LEMMA WorkerStep == IInv /\ (WorkerSend \/ Restart) => IInv'
<1> SUFFICES ASSUME IInv, WorkerSend \/ Restart PROVE IInv'
  OBVIOUS
<1> USE DEF WorkerSend, Restart
<1>1. \/ worker' = None
      \/ /\ worker # None
         /\ worker' \in [iteration : 1..MaxIteration, ids : SUBSET Ids, sent : BOOLEAN]
         /\ worker'.ids = worker.ids
  BY DEF IInv, TypeOK
<1>2. TypeOK'
  BY <1>1 DEF IInv, TypeOK, Ids, Stages
<1>3. SnapshotHoldsWeights'
  BY <1>1 DEF IInv, SnapshotHoldsWeights
<1>4. (WeightsInCorpus /\ WeightsOfOnePublication /\ FactorsAreCurrent)'
  BY DEF IInv, WeightsInCorpus, WeightsOfOnePublication, FactorsAreCurrent, Ids
<1>5. (TableHoldsCorpus /\ TableIsFresh /\ PicksFollowPublication)'
  BY DEF IInv, TableHoldsCorpus, TableIsFresh, PicksFollowPublication, Ids
<1> QED BY <1>2, <1>3, <1>4, <1>5 DEF IInv

(* A publication replaces every weight and every factor that exists, because *)
(* the snapshot it answers holds every testcase with a weight.               *)
LEMMA PublishStep == IInv /\ Publish => IInv'
<1> SUFFICES ASSUME IInv, Publish PROVE IInv'
  OBVIOUS
<1> USE DEF Publish, TpeStageDone
<1> DEFINE s == [iteration |-> worker.iteration, n |-> Cardinality(worker.ids)]
           w == [id \in 1..MaxCorpus |-> IF id \in worker.ids THEN worker.iteration
                                         ELSE weight[id]]
<1>1. /\ worker # None /\ worker.iteration \in 1..MaxIteration
      /\ worker.ids \subseteq Ids /\ worker.ids # {} /\ Ids \subseteq 1..MaxCorpus
  BY DEF IInv, TypeOK, SnapshotHoldsWeights, Ids
<1>2. stats' = s /\ s.n \in 1..MaxCorpus /\ s.iteration = worker.iteration
  BY <1>1, SnapshotSize
<1>3. weight' = w /\ factor' = published_factors(worker.ids, w, s)
  OBVIOUS
<1>4. \A id \in 1..MaxCorpus :
        weight'[id] = IF id \in worker.ids THEN worker.iteration ELSE None
  BY <1>1, <1>3 DEF IInv, SnapshotHoldsWeights
<1>5. \A id \in 1..MaxCorpus :
        factor'[id] = IF id \in worker.ids THEN compute_factor(features_active, s, w[id])
                      ELSE factor[id]
  BY <1>3 DEF published_factors
<1>6. /\ \A id \in worker.ids : compute_factor(features_active, s, w[id]) \in {0, worker.iteration}
      /\ \/ \A id \in worker.ids : compute_factor(features_active, s, w[id]) = 0
         \/ \A id \in worker.ids : compute_factor(features_active, s, w[id]) = worker.iteration
  BY <1>1, <1>3, <1>4 DEF compute_factor
<1>7. TypeOK'
  <2>1. weight' \in [1..MaxCorpus -> 1..MaxIteration \union {None}]
    BY <1>1, <1>3, <1>4
  <2>2. factor' \in [1..MaxCorpus -> 0..MaxIteration \union {None}]
    <3>1. \A id \in 1..MaxCorpus : factor'[id] \in 0..MaxIteration \union {None}
      <4>1. {0, worker.iteration} \subseteq 0..MaxIteration
        BY <1>1
      <4>2. \A id \in 1..MaxCorpus : factor[id] \in 0..MaxIteration \union {None}
        BY DEF IInv, TypeOK
      <4> HIDE DEF Publish, s, w
      <4> QED BY <1>5, <1>6, <4>1, <4>2
    <3>2. factor' = [id \in 1..MaxCorpus |-> factor'[id]]
      BY <1>3 DEF published_factors
    <3> HIDE DEF Publish
    <3> QED BY <3>1, <3>2
  <2>3. stats' \in [iteration : 1..MaxIteration, n : 1..MaxCorpus]
    BY <1>1, <1>2
  <2> QED BY <2>1, <2>2, <2>3 DEF IInv, TypeOK, Ids, Stages
<1>8. WeightsOfOnePublication'
  <2>1. stats' # None /\ stats'.iteration = worker.iteration
    <3>1. s \in [iteration : Nat, n : Nat]
      BY <1>1, <1>2
    <3> QED BY <1>2, <3>1
  <2>2. Ids' = Ids
    BY DEF Ids
  <2> HIDE DEF Publish
  <2> QED BY <1>1, <1>4, <2>1, <2>2 DEF WeightsOfOnePublication
<1>9. FactorsAreCurrent'
  <2>1. Ids' = Ids
    BY DEF Ids
  <2>2. \A id \in Ids : weight'[id] # None <=> id \in worker.ids
    BY <1>1, <1>4
  <2>3. \A id \in Ids : id \notin worker.ids => factor'[id] = None
    BY <1>1, <1>5 DEF IInv, FactorsAreCurrent, SnapshotHoldsWeights
  <2>4. \A id \in worker.ids : weight'[id] = worker.iteration
    BY <1>1, <1>4
  <2>5. \/ \A id \in worker.ids : factor'[id] = 0
        \/ \A id \in worker.ids : factor'[id] = worker.iteration
    BY <1>1, <1>5, <1>6
  <2> HIDE DEF Publish
  <2> QED BY <1>1, <2>1, <2>2, <2>3, <2>4, <2>5 DEF FactorsAreCurrent
<1>10. (WeightsInCorpus /\ SnapshotHoldsWeights)'
  BY <1>1, <1>4, <1>5 DEF IInv, WeightsInCorpus, SnapshotHoldsWeights, Ids
<1>11. (TableHoldsCorpus /\ TableIsFresh /\ PicksFollowPublication)'
  BY DEF IInv, TableHoldsCorpus, TableIsFresh, PicksFollowPublication, Ids
<1> QED BY <1>7, <1>8, <1>9, <1>10, <1>11 DEF IInv

(* Every step preserves the invariant. *)
LEMMA NextIInv == IInv /\ [Next]_vars => IInv'
<1> SUFFICES ASSUME IInv, [Next]_vars PROVE IInv'
  OBVIOUS
<1>1. CASE SchedulerNext
  BY <1>1, SchedulerStep
<1>2. CASE CalibrationDone \/ FeatStageSkipped \/ PowerDone \/ TpeWaits
  BY <1>2, StageDoneStep
<1>3. CASE AddTestcase
  BY <1>3, AddTestcaseStep
<1>4. CASE StartRecompute
  BY <1>4, StartRecomputeStep
<1>5. CASE WorkerSend \/ Restart
  BY <1>5, WorkerStep
<1>6. CASE Publish
  BY <1>6, PublishStep
<1>7. CASE UNCHANGED vars
  BY <1>7 DEF vars, IInv, TypeOK, Ids, TableHoldsCorpus, WeightsInCorpus, SnapshotHoldsWeights,
     TableIsFresh, PicksFollowPublication, WeightsOfOnePublication, FactorsAreCurrent
<1> QED BY <1>1, <1>2, <1>3, <1>4, <1>5, <1>6, <1>7 DEF Next, fuzz_one

(* The inductive invariant holds in every behaviour. *)
THEOREM SchedulingInvariant == Spec => []IInv
BY InitIInv, NextIInv, PTL DEF Spec

(* Types of the scheduling state, for every corpus bound. *)
THEOREM SchedulingTypeCorrect == Spec => []TypeOK
<1>1. IInv => TypeOK
  BY DEF IInv
<1> QED BY <1>1, SchedulingInvariant, PTL

(* The alias table holds every testcase whenever WeightedScheduler::next     *)
(* would use it without a rebuild.                                           *)
THEOREM TableAlwaysHoldsCorpus == Spec => []TableHoldsCorpus
<1>1. IInv => TableHoldsCorpus
  BY DEF IInv
<1> QED BY <1>1, SchedulingInvariant, PTL

(* No pick uses a table older than the last publication, over restarts. *)
THEOREM PicksAlwaysFollowPublication == Spec => []PicksFollowPublication
<1>1. IInv => PicksFollowPublication
  BY DEF IInv
<1> QED BY <1>1, SchedulingInvariant, PTL

(* All weights in the corpus, and the statistics, are of one publication.    *)
THEOREM WeightsAlwaysOfOnePublication == Spec => []WeightsOfOnePublication
<1>1. IInv => WeightsOfOnePublication
  BY DEF IInv
<1> QED BY <1>1, SchedulingInvariant, PTL

(* A publication replaces all factors: the testcases with a weight have all  *)
(* neutral factors or all factors of those weights, the others have none,    *)
(* and no stage between two publications changes that.                       *)
THEOREM FactorsAlwaysCurrent == Spec => []FactorsAreCurrent
<1>1. IInv => FactorsAreCurrent
  BY DEF IInv
<1> QED BY <1>1, SchedulingInvariant, PTL
=============================================================================
