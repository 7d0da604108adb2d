-------------------------- MODULE WeightScheduling --------------------------
(***************************************************************************)
(* How feature weights reach the choice of the next testcase: the snapshot  *)
(* the TPE stage hands to the worker thread, the publication of the result  *)
(* (weights, global statistics, factors), and the weighted scheduler, whose *)
(* alias table is rebuilt lazily, after an invalidation or a dirty mark.    *)
(* The stages run in the order of lib.rs; a crash of the target restarts    *)
(* the process from the saved state, in the stage it had reached, with a    *)
(* new scheduler object and no worker.                                      *)
(*                                                                          *)
(* Of a weight only the iteration it was computed for is kept.  A factor is *)
(* the iteration whose weights and statistics it was computed from, or 0    *)
(* for the neutral factor 1.0 of compute_factor's early returns.            *)
(***************************************************************************)
EXTENDS Integers, FiniteSets

CONSTANTS MaxCorpus,     \* bound on the number of testcases
          MaxIteration,  \* bound on current_iteration
          None

ASSUME SchedulingAssumption ==
  /\ MaxCorpus \in Nat \ {0} /\ MaxIteration \in Nat
  /\ None \notin Nat
  /\ None \notin [iteration : Nat, ids : SUBSET Nat, sent : BOOLEAN]
  /\ None \notin [iteration : Nat, n : Nat]

VARIABLES corpus,            \* number of testcases; their ids are 1..corpus
          weight,            \* TestcaseFeatureWeightMeta (PathWeightMeta in path mode)
          factor,            \* ExternalPerfMultMeta
          stats,             \* GlobalStatsMeta
          features_active,   \* FeatureGlobalsMeta.features_active
          iteration,         \* TpeIterationMeta.current_iteration
          worker,            \* pending_worker and result_rx of the TPE stage
          dirty,             \* WeightedAliasTableDirtyMeta.dirty
          table,             \* WeightedScheduleMetadata
          table_invalidated, \* field of the scheduler object
          stage, current     \* stage of fuzz_one and the testcase it works on

vars == <<corpus, weight, factor, stats, features_active, iteration, worker, dirty, table,
          table_invalidated, stage, current>>

Ids == 1..corpus

Stages == {"next", "calibration", "feat_stage", "power", "tpe_stage"}

(* The seeds are loaded and no testcase was scheduled yet. *)
Init ==
  /\ corpus \in 1..MaxCorpus
  /\ weight = [id \in 1..MaxCorpus |-> None]
  /\ factor = [id \in 1..MaxCorpus |-> None]
  /\ stats = None
  /\ features_active = FALSE
  /\ iteration = 0
  /\ worker = None
  /\ dirty = FALSE
  /\ table = [ids |-> {}, factors |-> factor, stats |-> None]
  /\ table_invalidated = TRUE
  /\ stage = "next" /\ current = None

compute_factor(active, s, w) ==
  IF ~active \/ s = None \/ w = None THEN 0
  ELSE IF s.n < 2 THEN 0 ELSE w

-----------------------------------------------------------------------------
(* WeightedScheduler::next.  The table is built from the corpus and from the *)
(* factors as they are; a testcase it does not hold would be a failed unwrap.*)
create_alias_table == [ids |-> Ids, factors |-> factor, stats |-> stats]

(* Defect: the dirty mark is cleared without a rebuild. *)
InvalidatedOnly == table_invalidated

must_rebuild == table_invalidated \/ dirty

(* Defect: the dirty mark is never cleared. *)
DirtyForever == dirty

dirty_after_next == FALSE

SchedulerNext ==
  /\ stage = "next"
  /\ dirty' = dirty_after_next
  /\ table' = IF must_rebuild THEN create_alias_table ELSE table
  /\ table_invalidated' = FALSE
  /\ current' \in Ids
  /\ stage' = "calibration"
  /\ UNCHANGED <<corpus, weight, factor, stats, features_active, iteration, worker>>

(* calibration and tracing *)
CalibrationDone ==
  /\ stage = "calibration"
  /\ stage' = "feat_stage"
  /\ UNCHANGED <<corpus, weight, factor, stats, features_active, iteration, worker, dirty, table,
                 table_invalidated, current>>

(* FeaturesAccountingStage: should_restart returns false, and                *)
(* perform_restartable calls perform only when it returns true.  The stage   *)
(* never writes a factor: a publication is the only step that does.          *)
FeatStageSkipped ==
  /\ stage = "feat_stage"
  /\ stage' = "power"
  /\ UNCHANGED <<corpus, weight, factor, stats, features_active, iteration, worker, dirty, table,
                 table_invalidated, current>>

(* WeightedScheduler::on_add, for a testcase found by the mutational stages. *)
(* Defect: a new testcase leaves the alias table valid. *)
StillValid == table_invalidated

on_add_invalidates == TRUE

AddTestcase ==
  /\ stage = "power"
  /\ corpus < MaxCorpus
  /\ corpus' = corpus + 1
  /\ table_invalidated' = on_add_invalidates
  /\ UNCHANGED <<weight, factor, stats, features_active, iteration, worker, dirty, table, stage,
                 current>>

PowerDone ==
  /\ stage = "power"
  /\ stage' = "tpe_stage"
  /\ UNCHANGED <<corpus, weight, factor, stats, features_active, iteration, worker, dirty, table,
                 table_invalidated, current>>

-----------------------------------------------------------------------------
(* The TPE stage. *)

(* The last stage of fuzz_one; the corpus id is cleared. *)
(* Defect: the next pass resumes with the same testcase. *)
IdNotCleared == stage = "tpe_stage" /\ stage' = "next" /\ current' = current

TpeStageDone == stage = "tpe_stage" /\ stage' = "next" /\ current' = None

TpeWaits ==
  /\ TpeStageDone
  /\ UNCHANGED <<corpus, weight, factor, stats, features_active, iteration, worker, dirty, table,
                 table_invalidated>>

(* Defect: the testcase being fuzzed is left out of the snapshot. *)
AllButCurrent == IF Ids = {current} THEN Ids ELSE Ids \ {current}

build_corpus_weight_snapshot == Ids

StartRecompute ==
  /\ TpeStageDone
  /\ worker = None
  /\ iteration < MaxIteration
  /\ iteration' = iteration + 1
  /\ worker' = [iteration |-> iteration + 1, ids |-> build_corpus_weight_snapshot, sent |-> FALSE]
  /\ UNCHANGED <<corpus, weight, factor, stats, features_active, dirty, table, table_invalidated>>

WorkerSend ==
  /\ worker # None
  /\ ~worker.sent
  /\ worker' = [worker EXCEPT !.sent = TRUE]
  /\ UNCHANGED <<corpus, weight, factor, stats, features_active, iteration, dirty, table,
                 table_invalidated, stage, current>>

(* Defect: factors are computed before the weights and statistics of the     *)
(* publication are in place.                                                 *)
FactorsFirst(ids, weights, s) ==
  [id \in 1..MaxCorpus |-> IF id \in ids THEN compute_factor(features_active, stats, weight[id])
                           ELSE factor[id]]

published_factors(ids, weights, s) ==
  [id \in 1..MaxCorpus |-> IF id \in ids THEN compute_factor(features_active, s, weights[id])
                           ELSE factor[id]]

(* poll_pending: publish_weight_recompute_result, then the dirty mark, then  *)
(* features_active.                                                          *)
Publish ==
  /\ TpeStageDone
  /\ worker # None
  /\ worker.sent
  /\ LET s == [iteration |-> worker.iteration, n |-> Cardinality(worker.ids)]
         weights == [id \in 1..MaxCorpus |-> IF id \in worker.ids THEN worker.iteration
                                             ELSE weight[id]]
     IN /\ weight' = weights
        /\ stats' = s
        /\ factor' = published_factors(worker.ids, weights, s)
  /\ dirty' = TRUE
  /\ features_active' = TRUE
  /\ worker' = None
  /\ UNCHANGED <<corpus, iteration, table, table_invalidated>>

(* The target crashes or times out. *)
Restart ==
  /\ stage \in {"calibration", "power"}
  /\ worker' = None
  /\ table_invalidated' = TRUE
  /\ UNCHANGED <<corpus, weight, factor, stats, features_active, iteration, dirty, table, stage,
                 current>>

fuzz_one == SchedulerNext \/ CalibrationDone \/ FeatStageSkipped \/ PowerDone
            \/ TpeWaits \/ StartRecompute \/ Publish

Next == fuzz_one \/ AddTestcase \/ WorkerSend \/ Restart

Spec == Init /\ [][Next]_vars

(* Every stage returns: the fuzz loop goes on, in one process or the next.   *)
FairSpec == Spec /\ WF_vars(fuzz_one)

-----------------------------------------------------------------------------
(* Properties. *)

(* Weights, factors, statistics, worker and table have their types.          *)
TypeOK ==
  /\ corpus \in 1..MaxCorpus
  /\ weight \in [1..MaxCorpus -> 1..MaxIteration \union {None}]
  /\ factor \in [1..MaxCorpus -> 0..MaxIteration \union {None}]
  /\ stats \in [iteration : 1..MaxIteration, n : 1..MaxCorpus] \union {None}
  /\ features_active \in BOOLEAN /\ dirty \in BOOLEAN /\ table_invalidated \in BOOLEAN
  /\ iteration \in 0..MaxIteration
  /\ worker \in [iteration : 1..MaxIteration, ids : SUBSET Ids, sent : BOOLEAN] \union {None}
  /\ table.ids \subseteq Ids
  /\ stage \in Stages
  /\ current \in Ids \union {None}
  /\ current = None <=> stage = "next"

(* After a pick, and until a testcase is added, the alias table holds every  *)
(* testcase: random_corpus_id can only draw ids whose alias_probability is   *)
(* there to unwrap.                                                          *)
TableHoldsCorpus == ~table_invalidated => table.ids = Ids

(* A pick never uses a table older than the last publication, whatever       *)
(* restarts and new testcases come in between.                               *)
PicksFollowPublication == stage = "calibration" => table.stats = stats

(* The weights on the testcases, and the statistics they are compared with,  *)
(* always come from one publication, although the corpus grows between the   *)
(* snapshot and the publication.                                             *)
WeightsOfOnePublication ==
  \A id \in Ids : weight[id] # None => stats # None /\ weight[id] = stats.iteration

(* A publication replaces the factors of all testcases, as it replaces their *)
(* weights: a testcase has a factor when it has a weight, no factor outlives *)
(* the weights it was computed from, and the testcases with a weight have    *)
(* either all neutral factors or all factors of their weights.  Since no     *)
(* other stage writes factors, no pick compares testcases scaled by their    *)
(* features with testcases of the same publication that are not.             *)
FactorsAreCurrent ==
  LET weighted == {id \in Ids : weight[id] # None}
  IN /\ \A id \in Ids \ weighted : factor[id] = None
     /\ \/ \A id \in weighted : factor[id] = 0
        \/ \A id \in weighted : factor[id] = weight[id]

(* A publication is followed by a rebuild of the table.                      *)
PublicationReachesTable == dirty ~> ~dirty /\ table.stats = stats

(* "published feature weights and invalidated alias table", the report of    *)
(* the TPE stage: the table rebuilt for a publication carries its factors    *)
(* for the testcases it has weights for.                                     *)
TableCarriesPublished ==
  stage = "calibration" /\ table.stats # None =>
    \A id \in table.ids : weight[id] # None /\ stats.n > 1 => table.factors[id] = weight[id]
=============================================================================
