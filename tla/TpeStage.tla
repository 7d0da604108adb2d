------------------------------ MODULE TpeStage ------------------------------
(***************************************************************************)
(* The TPE stage (feature_sched/tpe_stage.rs): the explore phase, the       *)
(* recompute of the corpus weights by a background thread, the measuring    *)
(* windows and the locked phase, interleaved with target executions, with   *)
(* time, and with crashes of the target that restart the fuzzer process     *)
(* from the state it saved (the TpeStage object itself is created anew).    *)
(*                                                                          *)
(* Variables that survive a restart are the metadata of the LibAFL state:   *)
(* meta (TpeIterationMeta), globals (FeatureGlobalsMeta), mask              *)
(* (VecMaskRuntimeMeta), hist (TpeHistoryMeta), published (the testcase     *)
(* weights) and edges (MapFeedbackMetadata).  opt and worker are fields of  *)
(* the TpeStage object and do not.                                          *)
(*                                                                          *)
(* A time stamp t is kept as the age now - t, counted up to the threshold   *)
(* it is compared with.                                                     *)
(***************************************************************************)
EXTENDS TpeOptimizer

CONSTANTS None,            \* Option::None
          CandidateFiles,  \* possible contents of <target>_v_candidates.json; <<>>: no file
          ExploreTime,     \* --explore-time-secs
          Period,          \* --tpe-period-secs
          ReTpeThreshold,  \* --re-tpe-threshold-secs
          MapSize,         \* indexes of the coverage map
          MaxIteration     \* bound on current_iteration (u64 in the code)

ASSUME StageAssumption ==
  /\ None \notin Nat
  /\ None \notin [iteration : Nat, vector : Vectors]
  /\ None \notin [iteration : Nat, vector : Vectors, status : {"computing", "sent", "gone"}]
  /\ CandidateFiles \subseteq Seq(Vectors)
  /\ ExploreTime \in Nat /\ Period \in Nat /\ ReTpeThreshold \in Nat
  /\ MapSize \in Nat
  /\ MaxIteration \in Nat

VARIABLES meta, globals, mask, hist, opt, worker, published, edges, explore_age, stopped

vars == <<meta, globals, mask, hist, opt, worker, published, edges, explore_age, stopped>>

Phases == {"Explore", "PendingRecompute", "ActiveWindow", "LockedBest"}

TpeIterationMeta ==
  [current_iteration : Nat,
   active_iteration : Nat \union {None},
   pending_iteration : Nat \union {None},
   phase : Phases,
   active_start_age : 0..Period \union {None},
   active_start_edges : 0..MapSize \union {None},
   last_new_edges_age : 0..ReTpeThreshold \union {None}]

Trial == [iteration : Nat, vector : Vectors, reward : 0..MapSize]

(* TpeHistoryMeta keeps vector and reward of a trial, not its iteration. *)
Saved == [vector : Vectors, reward : 0..MapSize]

FeatureGlobalsMeta ==
  [current_v : VecOrNone, v_candidates : Seq(Vectors), features_active : BOOLEAN]

VecMaskRuntimeMeta ==
  [auto_credit : BOOLEAN, candidate_file : CandidateFiles, candidate_file_loaded : BOOLEAN,
   tpe_init_committed : BOOLEAN, normalized_credit_init_v : VecOrNone]

TpeHistoryMeta == [trials : Seq(Saved), last_vec : VecOrNone]

TpeOptimizerState ==
  [trials : Seq(Trial), last_vec : VecOrNone, lock_best : BOOLEAN, best_fixed : VecOrNone,
   restored_once : BOOLEAN]

WeightRecomputeWorker ==
  [iteration : Nat, vector : Vectors, status : {"computing", "sent", "gone"}]

NewTpeStage == [trials |-> <<>>, last_vec |-> NoVec, lock_best |-> FALSE,
                best_fixed |-> NoVec, restored_once |-> FALSE]

Running == stopped = "no"

Init ==
  /\ meta = [current_iteration |-> 0, active_iteration |-> None, pending_iteration |-> None,
             phase |-> "Explore", active_start_age |-> None, active_start_edges |-> None,
             last_new_edges_age |-> None]
  /\ \E auto \in BOOLEAN, file \in CandidateFiles :
       /\ globals = [current_v |-> NoVec, v_candidates |-> IF auto THEN <<>> ELSE file,
                     features_active |-> FALSE]
       /\ mask = [auto_credit |-> auto, candidate_file |-> file,
                  candidate_file_loaded |-> ~auto /\ file # <<>>,
                  tpe_init_committed |-> FALSE, normalized_credit_init_v |-> NoVec]
  /\ hist = [trials |-> <<>>, last_vec |-> NoVec]
  /\ opt = NewTpeStage
  /\ worker = None
  /\ published = None
  /\ edges = 0
  /\ explore_age = 0
  /\ stopped = "no"

-----------------------------------------------------------------------------
(* What every perform does first: restore the optimizer once, and give up    *)
(* a recompute that has no worker.                                           *)

(* Defect: a restored trial is numbered with the current iteration. *)
RestoreAsCurrent ==
  IF opt.restored_once THEN opt
  ELSE [opt EXCEPT !.restored_once = TRUE, !.last_vec = hist.last_vec,
                   !.trials = [i \in DOMAIN hist.trials |->
                      [restored_trials(hist.trials)[i] EXCEPT !.iteration = meta.current_iteration]]]

restore_once ==
  IF opt.restored_once THEN opt
  ELSE [opt EXCEPT !.restored_once = TRUE, !.trials = restored_trials(hist.trials),
                   !.last_vec = hist.last_vec]

phase_of_perform ==
  IF meta.phase = "PendingRecompute" /\ worker = None
  THEN IF globals.current_v = NoVec THEN "Explore" ELSE "ActiveWindow"
  ELSE meta.phase

resumed_meta == [meta EXCEPT !.phase = phase_of_perform]

(* start_pending_recompute, from the metadata and optimizer the caller has   *)
(* reached.  The missing-ACFG error cannot happen: startup loads the ACFG in *)
(* frontier mode or exits.                                                   *)
(* Defect: the snapshot is stamped before the iteration is advanced. *)
StaleSnapshot(iteration, v) ==
  [iteration |-> iteration - 1, vector |-> v, status |-> "computing"]

spawn_weight_recompute_worker(iteration, v) ==
  [iteration |-> iteration, vector |-> v, status |-> "computing"]

(* Defect: the recompute under way is not recorded. *)
UnrecordedPending(m) ==
  [m EXCEPT !.current_iteration = m.current_iteration + 1, !.phase = "PendingRecompute"]

pending_meta(m) ==
  [m EXCEPT !.current_iteration = m.current_iteration + 1,
            !.pending_iteration = m.current_iteration + 1,
            !.phase = "PendingRecompute"]

start_pending_recompute(m, o, g, v) ==
  IF worker # None
  THEN meta' = m /\ opt' = o /\ globals' = g /\ worker' = worker
  ELSE /\ m.current_iteration < MaxIteration
       /\ globals' = [g EXCEPT !.current_v = v]
       /\ opt' = [o EXCEPT !.last_vec = v]
       /\ worker' = spawn_weight_recompute_worker(m.current_iteration + 1, v)
       /\ meta' = pending_meta(m)

(* What commit_mask_and_tpe_initialization_before_first_tpe can leave in     *)
(* mask and globals: the normalised credits may be any vector, and unless a  *)
(* candidate file was loaded the pool is rebuilt around them.                *)
committed ==
  IF mask.tpe_init_committed THEN {[mask |-> mask, globals |-> globals]}
  ELSE LET loaded == mask.candidate_file_loaded /\ ~mask.auto_credit
       IN UNION {{[mask |-> [mask EXCEPT !.tpe_init_committed = TRUE,
                                         !.candidate_file_loaded = loaded,
                                         !.normalized_credit_init_v = v],
                   globals |-> [globals EXCEPT !.v_candidates = pool,
                                  !.current_v = IF mask.auto_credit THEN NoVec ELSE @]] :
                   pool \in IF loaded THEN {globals.v_candidates}
                            ELSE enqueue_exact_then_neighbor_candidates(v)} : v \in Vectors}

-----------------------------------------------------------------------------
(* TpeStage::perform, one action per way through it. *)

ExploreRunning ==
  /\ Running
  /\ phase_of_perform = "Explore"
  /\ explore_age < ExploreTime
  /\ meta' = resumed_meta
  /\ opt' = restore_once
  /\ UNCHANGED <<globals, mask, hist, worker, published, edges, explore_age, stopped>>

ExploreDone ==
  /\ Running
  /\ phase_of_perform = "Explore"
  /\ explore_age >= ExploreTime
  /\ \E c \in committed :
       LET front == next_untried_from_pool(c.globals.v_candidates, restore_once.trials)
           g == [c.globals EXCEPT !.v_candidates = front.pool]
       IN /\ mask' = c.mask
          /\ IF front.next # NoVec
             THEN /\ start_pending_recompute(resumed_meta, restore_once, g, front.next)
                  /\ stopped' = stopped
             ELSE /\ stopped' = "no initial candidate"
                  /\ meta' = resumed_meta
                  /\ opt' = restore_once
                  /\ globals' = g
                  /\ worker' = worker
  /\ UNCHANGED <<hist, published, edges, explore_age>>

(* poll_pending: Empty, a result, a result of another iteration, or a        *)
(* worker that went away without sending.                                    *)
PollEmpty ==
  /\ Running
  /\ phase_of_perform = "PendingRecompute"
  /\ worker.status = "computing"
  /\ opt' = restore_once
  /\ UNCHANGED <<meta, globals, mask, hist, worker, published, edges, explore_age, stopped>>

PollResult ==
  /\ Running
  /\ phase_of_perform = "PendingRecompute"
  /\ worker.status = "sent"
  /\ worker' = None
  /\ opt' = restore_once
  /\ IF worker.iteration # meta.current_iteration
     THEN UNCHANGED <<published, globals, meta, hist>>
     ELSE /\ published' = [iteration |-> worker.iteration, vector |-> worker.vector]
          /\ globals' = [globals EXCEPT !.features_active = TRUE]
          /\ meta' = [meta EXCEPT !.active_iteration = worker.iteration,
                                  !.pending_iteration = None,
                                  !.phase = "ActiveWindow",
                                  !.active_start_age = 0,
                                  !.active_start_edges = edges,
                                  !.last_new_edges_age = 0]
          /\ hist' = persist_to_meta(opt')
  /\ UNCHANGED <<mask, edges, explore_age, stopped>>

PollDisconnected ==
  /\ Running
  /\ phase_of_perform = "PendingRecompute"
  /\ worker.status = "gone"
  /\ worker' = None
  /\ opt' = restore_once
  /\ stopped' = "worker disconnected"
  /\ UNCHANGED <<meta, globals, mask, hist, published, edges, explore_age>>

(* current_edges.saturating_sub(start_edges); edges are only ever added. *)
(* Defect: the operands of the difference are swapped. *)
SwappedGain == IF meta.active_start_edges = None THEN 0 ELSE meta.active_start_edges - edges

Gain == IF meta.active_start_edges = None THEN 0 ELSE edges - meta.active_start_edges

(* Defect: a window without new edges is kept open. *)
ElapsedWithGain ==
  meta.active_start_age # None /\ meta.active_start_age >= Period /\ Gain > 0

WindowElapsed == meta.active_start_age # None /\ meta.active_start_age >= Period

WindowRunning ==
  /\ Running
  /\ phase_of_perform = "ActiveWindow"
  /\ ~WindowElapsed
  /\ meta' = resumed_meta
  /\ opt' = restore_once
  /\ UNCHANGED <<globals, mask, hist, worker, published, edges, explore_age, stopped>>

WindowClose ==
  /\ Running
  /\ phase_of_perform = "ActiveWindow"
  /\ WindowElapsed
  /\ LET it == IF meta.active_iteration # None THEN meta.active_iteration
               ELSE meta.current_iteration
         o == IF globals.current_v = NoVec THEN restore_once
              ELSE [restore_once EXCEPT !.trials = observe_trial(@, it, globals.current_v, Gain)]
         m == IF Gain > 0 THEN [resumed_meta EXCEPT !.last_new_edges_age = 0] ELSE resumed_meta
     IN \E s \in suggest_next(globals.v_candidates, o.trials, o.lock_best) :
          LET g == [globals EXCEPT !.v_candidates = s.pool]
          IN /\ IF s.next # NoVec
                THEN start_pending_recompute(m, o, g, s.next)
                ELSE /\ opt' = [o EXCEPT !.lock_best = TRUE,
                             !.best_fixed = locked_best_fixed(@, o.trials, o.last_vec)]
                     /\ meta' = [m EXCEPT !.phase = "LockedBest"]
                     /\ globals' = g
                     /\ worker' = worker
             /\ hist' = persist_to_meta(opt')
  /\ UNCHANGED <<mask, published, edges, explore_age, stopped>>

LockedProgress ==
  /\ Running
  /\ phase_of_perform = "LockedBest"
  /\ Gain > 0
  /\ meta' = [meta EXCEPT !.active_start_edges = edges, !.last_new_edges_age = 0]
  /\ opt' = restore_once
  /\ UNCHANGED <<globals, mask, hist, worker, published, edges, explore_age, stopped>>

(* now - last_new, where last_new is the first of last_new_edges_ms,          *)
(* active_start_ms and now that is present.  LockedBest is entered from an    *)
(* elapsed window, whose publication set both, so the first one is present.   *)
QuietLongEnough == meta.last_new_edges_age # None /\ meta.last_new_edges_age >= ReTpeThreshold

LockedWaiting ==
  /\ Running
  /\ phase_of_perform = "LockedBest"
  /\ Gain = 0
  /\ ~QuietLongEnough
  /\ opt' = restore_once
  /\ UNCHANGED <<meta, globals, mask, hist, worker, published, edges, explore_age, stopped>>

(* enqueue_inverse_candidates unlocks only when there is a best vector.       *)
LockedRetry ==
  /\ Running
  /\ phase_of_perform = "LockedBest"
  /\ Gain = 0
  /\ QuietLongEnough
  /\ LET r == restore_once
         best == best_vec(r.best_fixed, r.trials)
         o == IF best = NoVec THEN r ELSE [r EXCEPT !.lock_best = FALSE]
     IN \E pool \in IF best = NoVec THEN {globals.v_candidates}
                    ELSE enqueue_samples_around(globals.v_candidates) :
        \E s \in suggest_next(pool, o.trials, o.lock_best) :
          LET g == [globals EXCEPT !.v_candidates = s.pool]
          IN IF s.next # NoVec
             THEN start_pending_recompute(meta, o, g, s.next)
             ELSE /\ opt' = IF s.locks
                            THEN [o EXCEPT !.lock_best = TRUE,
                                   !.best_fixed = locked_best_fixed(@, o.trials, o.last_vec)]
                            ELSE o
                  /\ globals' = g
                  /\ UNCHANGED <<meta, worker>>
  /\ UNCHANGED <<mask, hist, published, edges, explore_age, stopped>>

perform == ExploreRunning \/ ExploreDone \/ PollEmpty \/ PollResult \/ PollDisconnected
           \/ WindowRunning \/ WindowClose \/ LockedProgress \/ LockedWaiting \/ LockedRetry

-----------------------------------------------------------------------------
(* The worker thread, target executions, time, restarts. *)

WorkerSend ==
  /\ Running
  /\ worker # None
  /\ worker.status = "computing"
  /\ worker' = [worker EXCEPT !.status = "sent"]
  /\ UNCHANGED <<meta, globals, mask, hist, opt, published, edges, explore_age, stopped>>

WorkerPanic ==
  /\ Running
  /\ worker # None
  /\ worker.status = "computing"
  /\ worker' = [worker EXCEPT !.status = "gone"]
  /\ UNCHANGED <<meta, globals, mask, hist, opt, published, edges, explore_age, stopped>>

(* A testcase is added and its new map indexes are counted. *)
NewCoverage ==
  /\ Running
  /\ edges' \in (edges + 1)..MapSize
  /\ UNCHANGED <<meta, globals, mask, hist, opt, worker, published, explore_age, stopped>>

Aged(age, limit) == IF age = None THEN None ELSE Smaller(age + 1, limit)

Tick ==
  /\ Running
  /\ explore_age' = Smaller(explore_age + 1, ExploreTime)
  /\ meta' = [meta EXCEPT !.active_start_age = Aged(@, Period),
                          !.last_new_edges_age = Aged(@, ReTpeThreshold)]
  /\ UNCHANGED <<globals, mask, hist, opt, worker, published, edges, stopped>>

(* lib.rs keeps fuzz_start_epoch_ms of a resumed run. *)
(* Defect: every start of the process sets it. *)
RestartedExploreAge == 0

resumed_explore_age == explore_age

(* ensure_v_candidates_for reads the file only into an empty pool. *)
reloads_candidates == ~mask.auto_credit /\ globals.v_candidates = <<>>

(* Defect: an absent candidate file counts as loaded. *)
AbsentFileLoaded ==
  IF reloads_candidates /\ ~mask.tpe_init_committed
  THEN [mask EXCEPT !.candidate_file_loaded = TRUE]
  ELSE mask

resumed_mask ==
  IF reloads_candidates /\ mask.candidate_file # <<>> /\ ~mask.tpe_init_committed
  THEN [mask EXCEPT !.candidate_file_loaded = TRUE]
  ELSE mask

(* The target crashes or times out: the state is saved, the next child       *)
(* restores it and runs the startup code, which loads the candidate file     *)
(* again when the pool is empty, keeps current_v and fuzz_start, and builds  *)
(* a new TpeStage.  The worker dies with the process.                        *)
Restart ==
  /\ Running
  /\ globals' = IF reloads_candidates
                THEN [globals EXCEPT !.v_candidates = mask.candidate_file] ELSE globals
  /\ mask' = resumed_mask
  /\ explore_age' = resumed_explore_age
  /\ opt' = NewTpeStage
  /\ worker' = None
  /\ UNCHANGED <<meta, hist, published, edges, stopped>>

(* A stage error leaves the fuzz loop and ends the run. *)
Stopped == ~Running /\ UNCHANGED vars

Next == perform \/ WorkerSend \/ WorkerPanic \/ NewCoverage \/ Tick \/ Restart \/ Stopped

Spec == Init /\ [][Next]_vars

(* The fuzz loop reaches its last stage again and again (an interrupted pass *)
(* resumes at the stage it had reached), the clock advances and the worker   *)
(* runs to its end.                                                          *)
Fairness == WF_vars(perform) /\ WF_vars(Tick) /\ WF_vars(WorkerSend)

FairSpec == Spec /\ Fairness

-----------------------------------------------------------------------------
(* Properties. *)

(* The metadata, the optimizer and the worker have the types of the source.  *)
TypeOK ==
  /\ meta \in TpeIterationMeta
  /\ globals \in FeatureGlobalsMeta
  /\ mask \in VecMaskRuntimeMeta
  /\ hist \in TpeHistoryMeta
  /\ opt \in TpeOptimizerState
  /\ worker \in WeightRecomputeWorker \union {None}
  /\ published \in [iteration : Nat, vector : Vectors] \union {None}
  /\ edges \in 0..MapSize
  /\ explore_age \in 0..ExploreTime
  /\ stopped \in {"no", "no initial candidate", "worker disconnected"}

(* A live worker always computes the weights of the current iteration and of *)
(* the current vector, in phase PendingRecompute: the branch of poll_pending *)
(* that discards a result of another iteration and the early return of       *)
(* start_pending_recompute for a second worker are never taken.              *)
WorkerIsCurrent ==
  worker # None =>
    /\ meta.phase = "PendingRecompute"
    /\ worker.iteration = meta.current_iteration
    /\ meta.pending_iteration = meta.current_iteration
    /\ worker.vector = globals.current_v

(* Unless a restart cut its recompute short (pending_iteration is then still *)
(* set), the vector that a window measures, and that observe_trial will      *)
(* record at its end, is the vector whose weights poll_pending published.    *)
WindowMeasuresPublished ==
  phase_of_perform \in {"ActiveWindow", "LockedBest"} /\ meta.pending_iteration = None =>
    /\ published # None
    /\ published.vector = globals.current_v
    /\ published.iteration = meta.active_iteration
    /\ meta.active_iteration = meta.current_iteration

(* Every trial the optimizer knows is in TpeHistoryMeta with the same vector *)
(* and reward, so a crash at any point loses no observed trial.              *)
HistoryDurable == opt.restored_once => hist.trials = saved_trials(opt.trials)

(* In a window that was published, every earlier trial, numbered as it is    *)
(* after a restore, has a smaller iteration: observe_trial merges the new    *)
(* reward into the last trial only when the vector is the same.              *)
TrialsAreOlder ==
  phase_of_perform = "ActiveWindow" /\ meta.pending_iteration = None =>
    \A i \in DOMAIN restore_once.trials :
      restore_once.trials[i].iteration < meta.active_iteration

(* The stage never leaves the fuzz loop with "TPE initialization committed   *)
(* without available initial candidate" or "failed to retrieve committed     *)
(* initial TPE candidate", whatever restarts happened while exploring.       *)
InitialCandidateExists == stopped # "no initial candidate"

(* The first vector ever applied is the first one of the candidate file when *)
(* a file was loaded, and the exact normalised Explore credits otherwise.    *)
FirstVectorIsInitial ==
  meta.current_iteration = 1 =>
    globals.current_v = IF mask.candidate_file_loaded THEN mask.candidate_file[1]
                        ELSE mask.normalized_credit_init_v

(* A first recompute cut short by a restart: no window was ever opened.      *)
FirstRecomputeLost == meta.pending_iteration # None /\ meta.active_iteration = None /\ worker = None

(* After the explore time the features are enabled, unless a restart loses   *)
(* the very first recompute or the worker thread dies.                       *)
FeaturesGetEnabled ==
  explore_age = ExploreTime ~> globals.features_active \/ FirstRecomputeLost \/ ~Running

(* An open window is closed: its iteration is followed by another one or by  *)
(* the locked phase.                                                         *)
WindowsClose ==
  \A k \in 1..(MaxIteration - 1) :
    meta.active_iteration = k /\ meta.current_iteration < MaxIteration
      ~> meta.active_iteration # k \/ meta.phase = "LockedBest" 
         \/ meta.current_iteration = MaxIteration \/ ~Running

(* "Explore time before enabling features" (the help of --explore-time-secs):*)
(* once it has passed, the features are enabled as long as the run goes on.  *)
FeaturesEnabledAfterExplore == explore_age = ExploreTime ~> globals.features_active \/ ~Running

(* "TPE learning period per iteration" (the help of --tpe-period-secs): the  *)
(* vector a window is about to record was the one in effect in that window.  *)
WindowMeasuresCurrent ==
  phase_of_perform = "ActiveWindow" /\ meta.active_start_age # None =>
    published.vector = globals.current_v
=============================================================================
