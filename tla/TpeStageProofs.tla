--------------------------- MODULE TpeStageProofs ---------------------------
(***************************************************************************)
(* Proofs that the safety invariants of TpeStage hold for every set of      *)
(* vectors, every candidate file and every value of the parameters.         *)
(***************************************************************************)
EXTENDS TpeStage, TpeOptimizerProofs

(* Only a stage that has restored its optimizer starts a worker, and one     *)
(* that has not is as new.                                                   *)
Fresh ==
  /\ worker # None => opt.restored_once
  /\ ~opt.restored_once => opt.trials = <<>>

(* A window or locked phase that no restart cut short is the published one.  *)
PublishedWindow ==
  meta.phase \in {"ActiveWindow", "LockedBest"} /\ meta.pending_iteration = None =>
    /\ published # None
    /\ published.vector = globals.current_v
    /\ published.iteration = meta.active_iteration
    /\ meta.active_iteration = meta.current_iteration

(* Nothing is decided while exploring, and a loaded file is still the pool.  *)
Exploring ==
  meta.phase = "Explore" =>
    /\ meta.current_iteration = 0
    /\ globals.current_v = NoVec
    /\ hist.trials = <<>>
    /\ ~mask.tpe_init_committed
    /\ mask.auto_credit => ~mask.candidate_file_loaded
    /\ mask.candidate_file_loaded =>
         mask.candidate_file # <<>> /\ globals.v_candidates = mask.candidate_file

Learning ==
  meta.phase # "Explore" =>
    /\ meta.current_iteration > 0
    /\ globals.current_v \in Vectors
    /\ mask.tpe_init_committed

Numbering ==
  /\ meta.pending_iteration \in {None, meta.current_iteration}
  /\ meta.phase = "PendingRecompute" => meta.pending_iteration = meta.current_iteration
  /\ meta.active_iteration # None => meta.active_iteration <= meta.current_iteration
  /\ meta.active_start_edges # None => meta.active_start_edges <= edges

(* The largest iteration a trial can have: the current one is observed when  *)
(* its window closes.                                                        *)
LastObserved ==
  IF meta.phase = "LockedBest" THEN meta.current_iteration ELSE meta.current_iteration - 1

(* There are no more trials than iterations observed, so the numbers that a  *)
(* restore gives them stay below the current iteration as well.              *)
HistoryNumbered ==
  meta.phase # "Explore" =>
    /\ Len(hist.trials) <= LastObserved
    /\ \A i \in DOMAIN opt.trials : opt.trials[i].iteration <= LastObserved

IInv ==
  /\ TypeOK
  /\ WorkerIsCurrent
  /\ Fresh
  /\ HistoryDurable
  /\ PublishedWindow
  /\ Exploring
  /\ Learning
  /\ Numbering
  /\ HistoryNumbered
  /\ FirstVectorIsInitial
  /\ InitialCandidateExists

-----------------------------------------------------------------------------

(* The history types of TpeStage are those of the lemmas on the optimizer. *)
LEMMA TrialTypes == Trial = TrialsUpTo(MapSize) /\ Saved = SavedUpTo(MapSize)
BY DEF Trial, Saved, TrialsUpTo, SavedUpTo

(* A history with no saved trial has no trial. *)
LEMMA NothingSaved ==
  ASSUME NEW t \in Seq(Trial), saved_trials(t) = <<>>
  PROVE  t = <<>>
<1>1. Len(saved_trials(t)) = Len(t)
  BY SavedTrials, TrialTypes, StageAssumption
<1> QED BY <1>1

(* What restore_once yields: a well-typed optimizer that agrees with         *)
(* TpeHistoryMeta and whose trials are numbered up to LastObserved.          *)
LEMMA Restored ==
  ASSUME IInv
  PROVE  /\ restore_once \in TpeOptimizerState
         /\ restore_once.restored_once
         /\ hist.trials = saved_trials(restore_once.trials)
         /\ Len(restore_once.trials) = Len(hist.trials)
         /\ meta.phase = "Explore" => restore_once.trials = <<>>
         /\ meta.phase # "Explore" =>
              \A i \in DOMAIN restore_once.trials :
                restore_once.trials[i].iteration <= LastObserved
<1> USE TrialTypes, StageAssumption
<1>1. opt \in TpeOptimizerState /\ hist.trials \in Seq(Saved) /\ hist.last_vec \in VecOrNone
      /\ meta.current_iteration \in Nat
  BY DEF IInv, TypeOK, TpeHistoryMeta, TpeIterationMeta
<1>2. CASE opt.restored_once
  <2>1. restore_once = opt
    BY <1>2 DEF restore_once
  <2>2. hist.trials = saved_trials(opt.trials)
    BY <1>2 DEF IInv, HistoryDurable
  <2>3. opt.trials \in Seq(Trial)
    BY <1>1 DEF TpeOptimizerState
  <2>4. Len(saved_trials(opt.trials)) = Len(opt.trials)
    BY <2>3, SavedTrials
  <2>5. meta.phase = "Explore" => opt.trials = <<>>
    BY <2>2, <2>3, NothingSaved DEF IInv, Exploring
  <2> QED BY <1>1, <1>2, <2>1, <2>2, <2>4, <2>5 DEF IInv, HistoryNumbered
<1>3. CASE ~opt.restored_once
  <2> DEFINE t == restored_trials(hist.trials)
  <2>1. /\ t \in Seq(Trial) /\ Len(t) = Len(hist.trials) /\ saved_trials(t) = hist.trials
        /\ \A i \in DOMAIN t : t[i].iteration < Len(hist.trials)
    BY <1>1, RestoredTrials
  <2>2. restore_once = [opt EXCEPT !.restored_once = TRUE, !.trials = t, !.last_vec = hist.last_vec]
    BY <1>3 DEF restore_once
  <2> HIDE DEF t
  <2>3. /\ restore_once \in TpeOptimizerState /\ restore_once.restored_once
        /\ restore_once.trials = t
    BY <1>1, <2>1, <2>2 DEF TpeOptimizerState
  <2>4. meta.phase = "Explore" => t = <<>>
    BY <2>1, NothingSaved DEF IInv, Exploring
  <2>5. meta.phase # "Explore" => Len(hist.trials) <= LastObserved
    BY DEF IInv, HistoryNumbered
  <2>6. LastObserved \in Int
    BY <1>1 DEF LastObserved
  <2>7. t \in Seq(TrialsUpTo(MapSize)) /\ \A i \in DOMAIN t : t[i].iteration \in Nat
    <3>1. \A i \in DOMAIN t : t[i] \in Trial
      BY <2>1
    <3> QED BY <2>1, <3>1 DEF Trial
  <2>8. meta.phase # "Explore" => \A i \in DOMAIN t : t[i].iteration <= LastObserved
    <3>1. Len(hist.trials) \in Nat
      BY <1>1
    <3> QED BY <2>1, <2>5, <2>6, <2>7, <3>1
  <2> QED BY <2>1, <2>3, <2>4, <2>8
<1> QED BY <1>2, <1>3

(* The phase perform acts on: Explore stays Explore, and a recompute without *)
(* worker continues as a window.                                             *)
LEMMA ResumedPhase ==
  ASSUME IInv
  PROVE  /\ phase_of_perform = "Explore" => meta.phase = "Explore" /\ resumed_meta = meta
         /\ phase_of_perform = "PendingRecompute" => meta.phase = "PendingRecompute" /\ worker # None
         /\ phase_of_perform = "LockedBest" => meta.phase = "LockedBest" /\ worker = None
         /\ phase_of_perform = "ActiveWindow" =>
              meta.phase \in {"PendingRecompute", "ActiveWindow"} /\ worker = None
         /\ resumed_meta \in TpeIterationMeta
         /\ resumed_meta.phase = phase_of_perform
         /\ resumed_meta.current_iteration = meta.current_iteration
         /\ resumed_meta.active_iteration = meta.active_iteration
         /\ resumed_meta.pending_iteration = meta.pending_iteration
         /\ resumed_meta.active_start_edges = meta.active_start_edges
<1>1. meta \in TpeIterationMeta
  BY DEF IInv, TypeOK
<1>2. phase_of_perform \in Phases
  BY <1>1 DEF phase_of_perform, Phases, TpeIterationMeta
<1>3. /\ phase_of_perform = "Explore" => meta.phase = "Explore"
      /\ phase_of_perform = "PendingRecompute" => meta.phase = "PendingRecompute" /\ worker # None
      /\ phase_of_perform = "LockedBest" => meta.phase = "LockedBest" /\ worker = None
      /\ phase_of_perform = "ActiveWindow" =>
              meta.phase \in {"PendingRecompute", "ActiveWindow"} /\ worker = None
  BY VectorsAssumption DEF phase_of_perform, IInv, Learning, WorkerIsCurrent
<1>4. /\ resumed_meta \in TpeIterationMeta
      /\ resumed_meta.phase = phase_of_perform
      /\ resumed_meta.current_iteration = meta.current_iteration
      /\ resumed_meta.active_iteration = meta.active_iteration
      /\ resumed_meta.pending_iteration = meta.pending_iteration
      /\ resumed_meta.active_start_edges = meta.active_start_edges
  BY <1>1, <1>2 DEF resumed_meta, TpeIterationMeta
<1>5. phase_of_perform = "Explore" => resumed_meta = meta
  BY <1>1, <1>3 DEF resumed_meta, TpeIterationMeta
<1> QED BY <1>3, <1>4, <1>5

(* What start_pending_recompute writes to TpeIterationMeta. *)
LEMMA PendingMeta ==
  ASSUME NEW m \in TpeIterationMeta, NEW k \in Nat
  PROVE  LET n == [m EXCEPT !.current_iteration = k, !.pending_iteration = k,
                            !.phase = "PendingRecompute"]
         IN /\ n \in TpeIterationMeta
            /\ n.current_iteration = k /\ n.pending_iteration = k
            /\ n.phase = "PendingRecompute"
            /\ n.active_iteration = m.active_iteration
            /\ n.active_start_edges = m.active_start_edges
BY DEF TpeIterationMeta, Phases

(* Starting a recompute restores the invariant: the worker, the metadata and *)
(* the vector all move to the next iteration together.                       *)
LEMMA StartPending ==
  ASSUME IInv, NEW m \in TpeIterationMeta, NEW o \in TpeOptimizerState, NEW g \in FeatureGlobalsMeta,
         NEW v \in Vectors,
         start_pending_recompute(m, o, g, v),
         worker = None,
         m.current_iteration = meta.current_iteration,
         m.active_iteration = meta.active_iteration,
         m.active_start_edges = meta.active_start_edges,
         o.restored_once,
         hist'.trials = saved_trials(o.trials),
         hist' \in TpeHistoryMeta,
         Len(o.trials) <= meta.current_iteration,
         \A i \in DOMAIN o.trials : o.trials[i].iteration <= meta.current_iteration,
         mask' \in VecMaskRuntimeMeta,
         mask'.tpe_init_committed,
         meta.current_iteration = 0 =>
           v = IF mask'.candidate_file_loaded THEN mask'.candidate_file[1]
               ELSE mask'.normalized_credit_init_v,
         UNCHANGED <<published, edges, explore_age, stopped>>
  PROVE  IInv'
<1> DEFINE c == meta.current_iteration
<1>1. /\ globals' = [g EXCEPT !.current_v = v]
      /\ opt' = [o EXCEPT !.last_vec = v]
      /\ worker' = [iteration |-> c + 1, vector |-> v, status |-> "computing"]
      /\ meta' = [m EXCEPT !.current_iteration = c + 1, !.pending_iteration = c + 1,
                           !.phase = "PendingRecompute"]
  BY DEF start_pending_recompute, spawn_weight_recompute_worker, pending_meta
<1>2. c \in Nat /\ edges \in 0..MapSize
  BY DEF IInv, TypeOK, TpeIterationMeta
<1>3. /\ meta' \in TpeIterationMeta
      /\ meta'.current_iteration = c + 1 /\ meta'.pending_iteration = c + 1
      /\ meta'.phase = "PendingRecompute"
      /\ meta'.active_iteration = meta.active_iteration
      /\ meta'.active_start_edges = meta.active_start_edges
  <2>1. c + 1 \in Nat
    BY <1>2
  <2> QED BY <1>1, <2>1, PendingMeta
<1>4. globals' \in FeatureGlobalsMeta /\ globals'.current_v = v
  BY <1>1 DEF FeatureGlobalsMeta, VecOrNone
<1>5. opt' \in TpeOptimizerState /\ opt'.trials = o.trials /\ opt'.restored_once
  BY <1>1 DEF TpeOptimizerState, VecOrNone
<1>6. /\ worker' \in WeightRecomputeWorker /\ worker' # None
      /\ worker'.iteration = c + 1 /\ worker'.vector = v
  BY <1>1, <1>2, StageAssumption DEF WeightRecomputeWorker
<1>7. TypeOK'
  BY <1>3, <1>4, <1>5, <1>6 DEF IInv, TypeOK
<1>8. WorkerIsCurrent' /\ Fresh' /\ HistoryDurable'
  BY <1>3, <1>4, <1>5, <1>6 DEF WorkerIsCurrent, Fresh, HistoryDurable
<1>9. PublishedWindow' /\ Exploring' /\ Learning'
  BY <1>2, <1>3, <1>4 DEF PublishedWindow, Exploring, Learning
<1>10. Numbering'
  <2>1. meta.active_iteration # None => meta.active_iteration \in Nat /\ meta.active_iteration <= c
    BY DEF IInv, Numbering, TypeOK, TpeIterationMeta
  <2>2. meta.active_start_edges # None => meta.active_start_edges <= edges
    BY DEF IInv, Numbering
  <2> QED BY <1>2, <1>3, <2>1, <2>2 DEF Numbering
<1>11. HistoryNumbered'
  <2>1. LastObserved' = c
    BY <1>2, <1>3 DEF LastObserved
  <2>2. o.trials \in Seq(Trial)
    BY DEF TpeOptimizerState
  <2>3. Len(saved_trials(o.trials)) = Len(o.trials)
    BY <2>2, SavedTrials, TrialTypes, StageAssumption
  <2> QED BY <1>5, <2>1, <2>3 DEF HistoryNumbered
<1>12. FirstVectorIsInitial'
  <2>1. meta'.current_iteration = 1 => meta.current_iteration = 0
    BY <1>2, <1>3
  <2> QED BY <1>4, <2>1 DEF FirstVectorIsInitial
<1>13. InitialCandidateExists'
  BY DEF IInv, InitialCandidateExists
<1> QED BY <1>7, <1>8, <1>9, <1>10, <1>11, <1>12, <1>13 DEF IInv

(* A step that changes neither globals, mask, hist, published, edges nor     *)
(* stopped, and of meta at most the phase and the ages, and that leaves the  *)
(* optimizer restored.                                                       *)
LEMMA QuietPerform ==
  ASSUME IInv, opt' = restore_once, meta' \in TpeIterationMeta,
         meta'.phase = phase_of_perform,
         meta'.current_iteration = meta.current_iteration,
         meta'.active_iteration = meta.active_iteration,
         meta'.pending_iteration = meta.pending_iteration,
         meta'.active_start_edges # None => meta'.active_start_edges <= edges,
         UNCHANGED <<globals, mask, hist, worker, published, edges, explore_age, stopped>>
  PROVE  IInv'
<1>1. /\ opt' \in TpeOptimizerState /\ opt'.restored_once
      /\ hist.trials = saved_trials(opt'.trials)
      /\ meta.phase # "Explore" => \A i \in DOMAIN opt'.trials : opt'.trials[i].iteration <= LastObserved
  BY Restored
<1>2. /\ phase_of_perform = "Explore" <=> meta.phase = "Explore"
      /\ phase_of_perform = "LockedBest" <=> meta.phase = "LockedBest"
      /\ phase_of_perform = "PendingRecompute" <=> meta.phase = "PendingRecompute" /\ worker # None
      /\ phase_of_perform = "ActiveWindow" =>
           meta.phase \in {"PendingRecompute", "ActiveWindow"} /\ worker = None
  BY ResumedPhase DEF phase_of_perform
<1>3. TypeOK'
  BY <1>1 DEF IInv, TypeOK
<1>4. WorkerIsCurrent'
  BY <1>2 DEF IInv, WorkerIsCurrent
<1>5. Fresh' /\ HistoryDurable'
  BY <1>1 DEF Fresh, HistoryDurable
<1>6. PublishedWindow'
  <2>1. meta.current_iteration \in Nat
    BY DEF IInv, TypeOK, TpeIterationMeta
  <2> QED BY <1>2, <2>1, StageAssumption DEF IInv, PublishedWindow, Numbering
<1>7. Exploring' /\ Learning'
  BY <1>2 DEF IInv, Exploring, Learning
<1>8. Numbering'
  BY <1>2 DEF IInv, Numbering
<1>9. HistoryNumbered'
  <2>1. LastObserved' = LastObserved
    BY <1>2 DEF LastObserved
  <2> QED BY <1>1, <1>2, <2>1 DEF IInv, HistoryNumbered
<1>10. FirstVectorIsInitial' /\ InitialCandidateExists'
  BY DEF IInv, FirstVectorIsInitial, InitialCandidateExists
<1> QED BY <1>3, <1>4, <1>5, <1>6, <1>7, <1>8, <1>9, <1>10 DEF IInv

-----------------------------------------------------------------------------

(* The initial states satisfy the invariant. *)
LEMMA InitIInv == Init => IInv
<1> SUFFICES ASSUME Init PROVE IInv
  OBVIOUS
<1>1. PICK auto \in BOOLEAN, file \in CandidateFiles :
        /\ globals = [current_v |-> NoVec, v_candidates |-> IF auto THEN <<>> ELSE file,
                      features_active |-> FALSE]
        /\ mask = [auto_credit |-> auto, candidate_file |-> file,
                   candidate_file_loaded |-> ~auto /\ file # <<>>,
                   tpe_init_committed |-> FALSE, normalized_credit_init_v |-> NoVec]
  BY DEF Init
<1>2. file \in Seq(Vectors) /\ <<>> \in Seq(Vectors) /\ <<>> \in Seq(Trial) /\ <<>> \in Seq(Saved)
  BY StageAssumption
<1>3. meta \in TpeIterationMeta
  BY DEF Init, TpeIterationMeta, Phases
<1>4. globals \in FeatureGlobalsMeta
  BY <1>1, <1>2 DEF FeatureGlobalsMeta, VecOrNone
<1>5. mask \in VecMaskRuntimeMeta
  BY <1>1 DEF VecMaskRuntimeMeta, VecOrNone
<1>6. hist \in TpeHistoryMeta /\ opt \in TpeOptimizerState
  BY <1>2 DEF Init, NewTpeStage, TpeHistoryMeta, TpeOptimizerState, VecOrNone
<1>7. TypeOK
  BY <1>3, <1>4, <1>5, <1>6, StageAssumption DEF Init, TypeOK
<1>8. /\ WorkerIsCurrent /\ Fresh /\ HistoryDurable /\ PublishedWindow /\ Learning
      /\ HistoryNumbered /\ InitialCandidateExists
  BY DEF Init, NewTpeStage, WorkerIsCurrent, Fresh, HistoryDurable, PublishedWindow, Learning,
         HistoryNumbered, InitialCandidateExists
<1>9. Exploring
  <2>1. /\ mask.auto_credit <=> auto
        /\ mask.candidate_file_loaded <=> ~auto /\ file # <<>>
        /\ mask.candidate_file = file
        /\ ~mask.tpe_init_committed
        /\ globals.current_v = NoVec
        /\ globals.v_candidates = IF auto THEN <<>> ELSE file
    BY <1>1
  <2>2. meta.current_iteration = 0 /\ hist.trials = <<>>
    BY DEF Init
  <2> QED BY <2>1, <2>2 DEF Exploring
<1>11. FirstVectorIsInitial
  BY DEF Init, FirstVectorIsInitial
<1>10. Numbering
  BY DEF Init, Numbering
<1> QED BY <1>7, <1>8, <1>9, <1>10, <1>11 DEF IInv

(* A perform that finds nothing to do. *)
LEMMA WaitingStep ==
  ASSUME IInv, ExploreRunning \/ PollEmpty \/ WindowRunning \/ LockedWaiting
  PROVE  IInv'
<1>1. meta.active_start_edges # None => meta.active_start_edges <= edges
  BY DEF IInv, Numbering
<1>2. meta \in TpeIterationMeta
  BY DEF IInv, TypeOK
<1>3. CASE ExploreRunning
  BY <1>1, <1>3, ResumedPhase, QuietPerform DEF ExploreRunning
<1>4. CASE PollEmpty
  BY <1>1, <1>2, <1>4, ResumedPhase, QuietPerform DEF PollEmpty
<1>5. CASE WindowRunning
  BY <1>1, <1>5, ResumedPhase, QuietPerform DEF WindowRunning
<1>6. CASE LockedWaiting
  BY <1>1, <1>2, <1>6, ResumedPhase, QuietPerform DEF LockedWaiting
<1> QED BY <1>3, <1>4, <1>5, <1>6

(* New edges in the locked phase restart its clock. *)
LEMMA LockedProgressStep ==
  ASSUME IInv, LockedProgress
  PROVE  IInv'
<1>1. meta \in TpeIterationMeta /\ edges \in 0..MapSize
  BY DEF IInv, TypeOK
<1>2. meta' = [meta EXCEPT !.active_start_edges = edges, !.last_new_edges_age = 0]
  BY DEF LockedProgress
<1>3. 0 \in 0..ReTpeThreshold
  BY StageAssumption
<1>4. /\ meta' \in TpeIterationMeta
      /\ meta'.phase = meta.phase
      /\ meta'.current_iteration = meta.current_iteration
      /\ meta'.active_iteration = meta.active_iteration
      /\ meta'.pending_iteration = meta.pending_iteration
      /\ meta'.active_start_edges = edges
  BY <1>1, <1>2, <1>3 DEF TpeIterationMeta
<1>5. phase_of_perform = meta.phase
  BY ResumedPhase DEF LockedProgress
<1>6. edges <= edges
  BY <1>1
<1> QED BY <1>4, <1>5, <1>6, QuietPerform DEF LockedProgress

(* commit_mask_and_tpe_initialization_before_first_tpe, run while exploring, *)
(* leaves a pool that starts with the vector FirstVectorIsInitial names.     *)
LEMMA Committed ==
  ASSUME IInv, meta.phase = "Explore", NEW d \in committed
  PROVE  /\ d.mask \in VecMaskRuntimeMeta
         /\ d.mask.tpe_init_committed
         /\ d.globals \in FeatureGlobalsMeta
         /\ d.globals.v_candidates # <<>>
         /\ d.globals.v_candidates[1] =
              IF d.mask.candidate_file_loaded THEN d.mask.candidate_file[1]
              ELSE d.mask.normalized_credit_init_v
<1>1. /\ ~mask.tpe_init_committed
      /\ mask.auto_credit => ~mask.candidate_file_loaded
      /\ mask.candidate_file_loaded =>
           mask.candidate_file # <<>> /\ globals.v_candidates = mask.candidate_file
  BY DEF IInv, Exploring
<1>2. mask \in VecMaskRuntimeMeta /\ globals \in FeatureGlobalsMeta
  BY DEF IInv, TypeOK
<1> DEFINE loaded == mask.candidate_file_loaded /\ ~mask.auto_credit
<1> DEFINE pools(v) == IF loaded THEN {globals.v_candidates}
                       ELSE enqueue_exact_then_neighbor_candidates(v)
           outcome(v, pool) ==
             [mask |-> [mask EXCEPT !.tpe_init_committed = TRUE,
                                    !.candidate_file_loaded = loaded,
                                    !.normalized_credit_init_v = v],
              globals |-> [globals EXCEPT !.v_candidates = pool,
                             !.current_v = IF mask.auto_credit THEN NoVec ELSE @]]
<1>3. \E v \in Vectors : \E pool \in pools(v) : d = outcome(v, pool)
  <2>1. d \in UNION {{outcome(v, pool) : pool \in pools(v)} : v \in Vectors}
    BY <1>1 DEF committed
  <2> HIDE DEF pools, outcome
  <2> QED BY <2>1
<1>a. PICK v \in Vectors : \E pool \in pools(v) : d = outcome(v, pool)
  BY <1>3
<1>b. PICK pool \in pools(v) : d = outcome(v, pool)
  BY <1>a
<1>4. /\ d.mask = [mask EXCEPT !.tpe_init_committed = TRUE, !.candidate_file_loaded = loaded,
                               !.normalized_credit_init_v = v]
      /\ d.globals = [globals EXCEPT !.v_candidates = pool,
                       !.current_v = IF mask.auto_credit THEN NoVec ELSE globals.current_v]
  BY <1>b
<1>5. /\ pool \in Seq(Vectors) /\ pool # <<>>
      /\ loaded => pool = mask.candidate_file
      /\ ~loaded => pool[1] = v
  <2>1. CASE loaded
    <3>1. pool = globals.v_candidates
      BY <2>1
    <3> QED BY <1>1, <1>2, <2>1, <3>1 DEF FeatureGlobalsMeta
  <2>2. CASE ~loaded
    <3>1. <<v>> \in Seq(Vectors) /\ Len(<<v>>) = 1 /\ <<v>>[1] = v
      OBVIOUS
    <3>2. pool \in enqueue_samples_around(<<v>>)
      BY <2>2 DEF enqueue_exact_then_neighbor_candidates
    <3>3. pool \in Seq(Vectors) /\ pool # <<>> /\ \A i \in 1..Len(<<v>>) : pool[i] = <<v>>[i]
      BY <3>1, <3>2, EnqueueSamples
    <3>4. 1 \in 1..Len(<<v>>)
      BY <3>1
    <3> QED BY <2>2, <3>1, <3>3, <3>4
  <2> QED BY <2>1, <2>2
<1>6. loaded \in BOOLEAN /\ v \in VecOrNone
  BY DEF VecOrNone
<1> HIDE DEF loaded
<1>7. /\ d.mask \in VecMaskRuntimeMeta /\ d.mask.tpe_init_committed
      /\ d.mask.candidate_file_loaded = loaded
      /\ d.mask.candidate_file = mask.candidate_file
      /\ d.mask.normalized_credit_init_v = v
  BY <1>2, <1>4, <1>6 DEF VecMaskRuntimeMeta
<1>8. d.globals \in FeatureGlobalsMeta /\ d.globals.v_candidates = pool
  BY <1>2, <1>4, <1>5 DEF FeatureGlobalsMeta, VecOrNone
<1> QED BY <1>5, <1>7, <1>8

(* The end of the explore phase starts the first recompute. *)
LEMMA ExploreDoneStep ==
  ASSUME IInv, ExploreDone
  PROVE  IInv'
<1>1. meta.phase = "Explore" /\ resumed_meta = meta /\ worker = None /\ meta \in TpeIterationMeta
  BY ResumedPhase DEF ExploreDone, IInv, TypeOK, WorkerIsCurrent
<1>2. /\ restore_once \in TpeOptimizerState /\ restore_once.restored_once
      /\ hist.trials = saved_trials(restore_once.trials)
      /\ restore_once.trials = <<>>
  BY <1>1, Restored
<1>3. meta.current_iteration = 0
  BY <1>1 DEF IInv, Exploring
<1>4. PICK d \in committed :
        LET front == next_untried_from_pool(d.globals.v_candidates, restore_once.trials)
            g == [d.globals EXCEPT !.v_candidates = front.pool]
        IN /\ mask' = d.mask
           /\ IF front.next # NoVec
              THEN /\ start_pending_recompute(resumed_meta, restore_once, g, front.next)
                   /\ stopped' = stopped
              ELSE /\ stopped' = "no initial candidate"
                   /\ meta' = resumed_meta
                   /\ opt' = restore_once
                   /\ globals' = g
                   /\ worker' = worker
  BY DEF ExploreDone
<1>5. /\ d.mask \in VecMaskRuntimeMeta /\ d.mask.tpe_init_committed
      /\ d.globals \in FeatureGlobalsMeta
      /\ d.globals.v_candidates # <<>>
      /\ d.globals.v_candidates[1] =
           IF d.mask.candidate_file_loaded THEN d.mask.candidate_file[1]
           ELSE d.mask.normalized_credit_init_v
  BY <1>1, Committed
<1> DEFINE front == next_untried_from_pool(d.globals.v_candidates, restore_once.trials)
           g == [d.globals EXCEPT !.v_candidates = front.pool]
<1>6. d.globals.v_candidates \in Seq(Vectors)
  BY <1>5 DEF FeatureGlobalsMeta
<1>7. /\ front.pool \in Seq(Vectors)
      /\ front.next = d.globals.v_candidates[1] /\ front.next # NoVec
      /\ front.next \in VecOrNone
  BY <1>2, <1>5, <1>6, NextUntried
<1> HIDE DEF front
<1>8. g \in FeatureGlobalsMeta
  BY <1>5, <1>7 DEF FeatureGlobalsMeta
<1>9. /\ mask' = d.mask
      /\ start_pending_recompute(meta, restore_once, g, front.next)
      /\ stopped' = stopped
  BY <1>1, <1>4, <1>7 DEF front
<1> HIDE DEF g
<1>10. hist' = hist /\ hist \in TpeHistoryMeta /\ UNCHANGED <<published, edges, explore_age, stopped>>
  BY <1>9 DEF ExploreDone, IInv, TypeOK
<1>11. front.next \in Vectors
  BY <1>7 DEF VecOrNone
<1>12. Len(restore_once.trials) <= meta.current_iteration
       /\ \A i \in DOMAIN restore_once.trials :
            restore_once.trials[i].iteration <= meta.current_iteration
  <2>1. Len(restore_once.trials) = 0 /\ DOMAIN restore_once.trials = {}
    BY <1>2
  <2> QED BY <1>3, <2>1
<1>13. front.next = IF mask'.candidate_file_loaded THEN mask'.candidate_file[1]
                    ELSE mask'.normalized_credit_init_v
  BY <1>5, <1>7, <1>9
<1> QED BY <1>1, <1>2, <1>5, <1>8, <1>9, <1>10, <1>11, <1>12, <1>13, StartPending

(* What persist_to_meta writes is well typed and agrees with the optimizer. *)
LEMMA Persisted ==
  ASSUME NEW o \in TpeOptimizerState
  PROVE  /\ persist_to_meta(o) \in TpeHistoryMeta
         /\ persist_to_meta(o).trials = saved_trials(o.trials)
         /\ Len(persist_to_meta(o).trials) = Len(o.trials)
<1>1. o.trials \in Seq(Trial) /\ o.last_vec \in VecOrNone
  BY DEF TpeOptimizerState
<1>2. saved_trials(o.trials) \in Seq(Saved) /\ Len(saved_trials(o.trials)) = Len(o.trials)
  BY <1>1, SavedTrials, TrialTypes, StageAssumption
<1> QED BY <1>1, <1>2 DEF persist_to_meta, TpeHistoryMeta

(* Publication: the worker's vector is the current one. *)
LEMMA PollResultStep ==
  ASSUME IInv, PollResult
  PROVE  IInv'
<1>1. meta.phase = "PendingRecompute" /\ worker # None
  BY ResumedPhase DEF PollResult
<1>2. /\ worker.iteration = meta.current_iteration /\ worker.vector = globals.current_v
      /\ opt.restored_once
  BY <1>1 DEF IInv, WorkerIsCurrent, Fresh
<1>3. /\ meta \in TpeIterationMeta /\ meta.current_iteration \in Nat /\ edges \in 0..MapSize
      /\ globals \in FeatureGlobalsMeta /\ opt \in TpeOptimizerState
      /\ worker \in WeightRecomputeWorker
  BY <1>1 DEF IInv, TypeOK, TpeIterationMeta
<1>4. /\ opt' = opt /\ worker' = None
      /\ published' = [iteration |-> worker.iteration, vector |-> worker.vector]
      /\ globals' = [globals EXCEPT !.features_active = TRUE]
      /\ meta' = [meta EXCEPT !.active_iteration = worker.iteration, !.pending_iteration = None,
                              !.phase = "ActiveWindow", !.active_start_age = 0,
                              !.active_start_edges = edges, !.last_new_edges_age = 0]
      /\ hist' = persist_to_meta(opt')
  BY <1>2 DEF PollResult, restore_once
<1>5. 0 \in 0..Period /\ 0 \in 0..ReTpeThreshold /\ worker.iteration \in Nat
      /\ "ActiveWindow" \in Phases
  BY <1>2, <1>3, StageAssumption DEF Phases
<1>6. /\ meta' \in TpeIterationMeta
      /\ meta'.phase = "ActiveWindow" /\ meta'.pending_iteration = None
      /\ meta'.current_iteration = meta.current_iteration
      /\ meta'.active_iteration = worker.iteration
      /\ meta'.active_start_edges = edges
  <2>1. meta' = [meta EXCEPT !.active_iteration = worker.iteration, !.pending_iteration = None,
                              !.phase = "ActiveWindow", !.active_start_age = 0,
                              !.active_start_edges = edges, !.last_new_edges_age = 0]
    BY <1>4
  <2> QED BY <1>3, <1>5, <2>1 DEF TpeIterationMeta
<1>7. globals' \in FeatureGlobalsMeta /\ globals'.current_v = globals.current_v
  BY <1>3, <1>4 DEF FeatureGlobalsMeta
<1>8. /\ published' \in [iteration : Nat, vector : Vectors]
      /\ published' # None /\ published'.vector = worker.vector
      /\ published'.iteration = worker.iteration
  BY <1>3, <1>4, <1>5, StageAssumption DEF WeightRecomputeWorker
<1>9. /\ hist' \in TpeHistoryMeta
      /\ hist'.trials = saved_trials(opt.trials)
      /\ hist.trials = saved_trials(opt.trials)
  BY <1>2, <1>3, <1>4, Persisted DEF IInv, HistoryDurable
<1>10. UNCHANGED <<mask, edges, explore_age, stopped>>
  BY DEF PollResult
<1>11. TypeOK'
  BY <1>4, <1>6, <1>7, <1>8, <1>9, <1>10 DEF IInv, TypeOK
<1>12. WorkerIsCurrent' /\ Fresh' /\ HistoryDurable'
  BY <1>2, <1>4, <1>9 DEF WorkerIsCurrent, Fresh, HistoryDurable
<1>13. PublishedWindow' /\ Exploring'
  BY <1>2, <1>6, <1>7, <1>8 DEF PublishedWindow, Exploring
<1>14. Learning'
  BY <1>1, <1>6, <1>7, <1>10 DEF IInv, Learning
<1>15. Numbering'
  <2>1. edges <= edges /\ meta.current_iteration <= meta.current_iteration
    BY <1>3
  <2> QED BY <1>2, <1>6, <1>10, <2>1 DEF Numbering
<1>16. HistoryNumbered'
  <2>1. LastObserved' = LastObserved
    BY <1>1, <1>6 DEF LastObserved
  <2> QED BY <1>1, <1>4, <1>9, <2>1 DEF IInv, HistoryNumbered
<1>17. FirstVectorIsInitial' /\ InitialCandidateExists'
  BY <1>6, <1>7, <1>10 DEF IInv, FirstVectorIsInitial, InitialCandidateExists
<1> QED BY <1>11, <1>12, <1>13, <1>14, <1>15, <1>16, <1>17 DEF IInv

(* A dead worker ends the run. *)
LEMMA PollDisconnectedStep ==
  ASSUME IInv, PollDisconnected
  PROVE  IInv'
<1>1. meta.phase = "PendingRecompute" /\ worker # None
  BY ResumedPhase DEF PollDisconnected
<1>2. opt' = opt /\ worker' = None /\ stopped' = "worker disconnected"
      /\ UNCHANGED <<meta, globals, mask, hist, published, edges, explore_age>>
  BY <1>1 DEF IInv, Fresh, PollDisconnected, restore_once
<1>3. TypeOK'
  BY <1>2 DEF IInv, TypeOK
<1>4. /\ WorkerIsCurrent' /\ Fresh' /\ HistoryDurable' /\ PublishedWindow' /\ Exploring'
      /\ Learning' /\ Numbering' /\ FirstVectorIsInitial' /\ InitialCandidateExists'
  BY <1>2 DEF IInv, WorkerIsCurrent, Fresh, HistoryDurable, PublishedWindow, Exploring, Learning,
              Numbering, FirstVectorIsInitial, InitialCandidateExists
<1>5. HistoryNumbered'
  BY <1>2 DEF IInv, HistoryNumbered, LastObserved
<1> QED BY <1>3, <1>4, <1>5 DEF IInv

(* The reward of a window is a number of map indexes. *)
LEMMA GainType == IInv => Gain \in 0..MapSize
<1> SUFFICES ASSUME IInv PROVE Gain \in 0..MapSize
  OBVIOUS
<1>1. edges \in 0..MapSize /\ MapSize \in Nat
  BY StageAssumption DEF IInv, TypeOK
<1>2. CASE meta.active_start_edges = None
  BY <1>1, <1>2 DEF Gain
<1>3. CASE meta.active_start_edges # None
  <2>1. meta.active_start_edges \in 0..MapSize /\ meta.active_start_edges <= edges
    BY <1>3 DEF IInv, TypeOK, TpeIterationMeta, Numbering
  <2> QED BY <1>1, <1>3, <2>1 DEF Gain
<1> QED BY <1>2, <1>3

(* Closing a window: its trial is observed, and either the next recompute is *)
(* started or the optimizer is locked.                                       *)
LEMMA WindowCloseStep ==
  ASSUME IInv, WindowClose
  PROVE  IInv'
<1> DEFINE c == meta.current_iteration
           it == IF meta.active_iteration # None THEN meta.active_iteration ELSE c
           o == IF globals.current_v = NoVec THEN restore_once
                ELSE [restore_once EXCEPT !.trials = observe_trial(@, it, globals.current_v, Gain)]
           m == IF Gain > 0 THEN [resumed_meta EXCEPT !.last_new_edges_age = 0] ELSE resumed_meta
<1>1. /\ meta.phase \in {"PendingRecompute", "ActiveWindow"} /\ worker = None
      /\ resumed_meta \in TpeIterationMeta
      /\ resumed_meta.phase = "ActiveWindow"
      /\ resumed_meta.current_iteration = c
      /\ resumed_meta.active_iteration = meta.active_iteration
      /\ resumed_meta.pending_iteration = meta.pending_iteration
      /\ resumed_meta.active_start_edges = meta.active_start_edges
  BY ResumedPhase DEF WindowClose
<1>2. /\ c \in Nat /\ c > 0 /\ globals.current_v \in Vectors /\ globals \in FeatureGlobalsMeta
      /\ meta.active_iteration \in Nat \union {None}
      /\ mask \in VecMaskRuntimeMeta /\ mask.tpe_init_committed
  BY <1>1 DEF IInv, TypeOK, Learning, TpeIterationMeta
<1>3. it \in Nat /\ it <= c
  BY <1>2 DEF IInv, Numbering
<1>4. /\ restore_once \in TpeOptimizerState /\ restore_once.restored_once
      /\ Len(restore_once.trials) <= c - 1
      /\ \A i \in DOMAIN restore_once.trials : restore_once.trials[i].iteration <= c - 1
  <2>1. LastObserved = c - 1 /\ meta.phase # "Explore"
    BY <1>1 DEF LastObserved
  <2>2. Len(hist.trials) <= c - 1
    BY <2>1 DEF IInv, HistoryNumbered
  <2> QED BY <2>1, <2>2, Restored
<1>5. /\ m \in TpeIterationMeta
      /\ m.phase = "ActiveWindow" /\ m.current_iteration = c
      /\ m.active_iteration = meta.active_iteration
      /\ m.pending_iteration = meta.pending_iteration
      /\ m.active_start_edges = meta.active_start_edges
  <2>1. 0 \in 0..ReTpeThreshold
    BY StageAssumption
  <2> DEFINE r == [resumed_meta EXCEPT !.last_new_edges_age = 0]
  <2>2. /\ r \in TpeIterationMeta
        /\ r.phase = resumed_meta.phase /\ r.current_iteration = resumed_meta.current_iteration
        /\ r.active_iteration = resumed_meta.active_iteration
        /\ r.pending_iteration = resumed_meta.pending_iteration
        /\ r.active_start_edges = resumed_meta.active_start_edges
    BY <1>1, <2>1 DEF TpeIterationMeta
  <2> HIDE DEF r
  <2>3. m = r \/ m = resumed_meta
    BY DEF r
  <2> HIDE DEF m
  <2> QED BY <1>1, <2>2, <2>3
<1>6. /\ o \in TpeOptimizerState /\ o.restored_once
      /\ Len(o.trials) <= c
      /\ \A i \in DOMAIN o.trials : o.trials[i].iteration <= c
  <2> DEFINE t == observe_trial(restore_once.trials, it, globals.current_v, Gain)
  <2>1. restore_once.trials \in Seq(TrialsUpTo(MapSize))
    BY <1>4, TrialTypes DEF TpeOptimizerState
  <2>2. Gain \in 0..MapSize /\ MapSize \in Nat
    BY GainType, StageAssumption
  <2>3. /\ t \in Seq(TrialsUpTo(MapSize)) /\ Len(t) <= Len(restore_once.trials) + 1
        /\ \A i \in DOMAIN t : \/ t[i].iteration = it
                               \/ \E j \in DOMAIN restore_once.trials :
                                    t[i].iteration = restore_once.trials[j].iteration
    <3> HIDE DEF it
    <3> QED BY <1>2, <1>3, <2>1, <2>2, ObserveTrial
  <2>4. o = [restore_once EXCEPT !.trials = t]
    BY <1>2, VectorsAssumption
  <2>5. \A j \in DOMAIN restore_once.trials : restore_once.trials[j].iteration \in Nat
    <3>1. \A j \in DOMAIN restore_once.trials : restore_once.trials[j] \in TrialsUpTo(MapSize)
      BY <2>1
    <3> QED BY <3>1 DEF TrialsUpTo
  <2> HIDE DEF o, it
  <2>6. \A i \in DOMAIN t : t[i].iteration <= c
    BY <1>2, <1>3, <1>4, <2>3, <2>5
  <2>7. Len(t) <= c
    BY <1>2, <1>4, <2>1, <2>3
  <2> HIDE DEF t
  <2>8. o \in TpeOptimizerState /\ o.trials = t /\ o.restored_once
    BY <1>4, <2>3, <2>4, TrialTypes DEF TpeOptimizerState
  <2> QED BY <2>6, <2>7, <2>8
<1>7. PICK s \in suggest_next(globals.v_candidates, o.trials, o.lock_best) :
        LET g == [globals EXCEPT !.v_candidates = s.pool]
        IN /\ IF s.next # NoVec
              THEN start_pending_recompute(m, o, g, s.next)
              ELSE /\ opt' = [o EXCEPT !.lock_best = TRUE,
                           !.best_fixed = locked_best_fixed(@, o.trials, o.last_vec)]
                   /\ meta' = [m EXCEPT !.phase = "LockedBest"]
                   /\ globals' = g
                   /\ worker' = worker
           /\ hist' = persist_to_meta(opt')
  BY DEF WindowClose
<1>8. UNCHANGED <<mask, published, edges, explore_age, stopped>>
  BY DEF WindowClose
<1> HIDE DEF o, m, it
<1>9. s.next \in VecOrNone /\ s.pool \in Seq(Vectors)
  BY <1>2, <1>6, SuggestNext DEF FeatureGlobalsMeta, TpeOptimizerState
<1> DEFINE g == [globals EXCEPT !.v_candidates = s.pool]
<1>10. g \in FeatureGlobalsMeta /\ g.current_v = globals.current_v
  BY <1>2, <1>9 DEF FeatureGlobalsMeta
<1>11. hist' = persist_to_meta(opt')
  BY <1>7
<1>12. CASE s.next # NoVec
  <2>1. start_pending_recompute(m, o, g, s.next)
    BY <1>7, <1>12
  <2>2. s.next \in Vectors
    BY <1>9, <1>12 DEF VecOrNone
  <2>3. opt' = [o EXCEPT !.last_vec = s.next]
    BY <1>1, <2>1 DEF start_pending_recompute
  <2>4. opt' \in TpeOptimizerState /\ opt'.trials = o.trials
    BY <1>6, <2>2, <2>3 DEF TpeOptimizerState, VecOrNone
  <2>5. hist' \in TpeHistoryMeta /\ hist'.trials = saved_trials(o.trials)
    BY <1>11, <2>4, Persisted
  <2>6. c # 0
    BY <1>2
  <2> HIDE DEF g
  <2> QED BY <1>1, <1>2, <1>5, <1>6, <1>8, <1>10, <2>1, <2>2, <2>5, <2>6, StartPending
<1>13. CASE s.next = NoVec
  <2>1. /\ opt' = [o EXCEPT !.lock_best = TRUE,
                     !.best_fixed = locked_best_fixed(o.best_fixed, o.trials, o.last_vec)]
        /\ meta' = [m EXCEPT !.phase = "LockedBest"]
        /\ globals' = g
        /\ worker' = None
    BY <1>1, <1>7, <1>13
  <2>2. locked_best_fixed(o.best_fixed, o.trials, o.last_vec) \in VecOrNone
    BY <1>6, LockedBestFixed, TrialTypes, StageAssumption DEF TpeOptimizerState
  <2>3. opt' \in TpeOptimizerState /\ opt'.trials = o.trials /\ opt'.restored_once
    BY <1>6, <2>1, <2>2 DEF TpeOptimizerState
  <2>4. hist' \in TpeHistoryMeta /\ hist'.trials = saved_trials(o.trials)
        /\ Len(hist'.trials) = Len(o.trials)
    BY <1>11, <2>3, Persisted
  <2>5. /\ meta' \in TpeIterationMeta
        /\ meta'.phase = "LockedBest" /\ meta'.current_iteration = c
        /\ meta'.active_iteration = meta.active_iteration
        /\ meta'.pending_iteration = meta.pending_iteration
        /\ meta'.active_start_edges = meta.active_start_edges
    BY <1>5, <2>1 DEF TpeIterationMeta, Phases
  <2> HIDE DEF g
  <2>6. TypeOK'
    BY <1>8, <1>10, <2>1, <2>3, <2>4, <2>5 DEF IInv, TypeOK
  <2>7. WorkerIsCurrent' /\ Fresh' /\ HistoryDurable' /\ Exploring'
    BY <2>1, <2>3, <2>4, <2>5 DEF WorkerIsCurrent, Fresh, HistoryDurable, Exploring
  <2>8. PublishedWindow'
    <3>1. meta.pending_iteration = None => meta.phase = "ActiveWindow"
      BY <1>1, <1>2, StageAssumption DEF IInv, Numbering
    <3> QED BY <1>8, <1>10, <2>1, <2>5, <3>1 DEF IInv, PublishedWindow
  <2>9. Learning'
    BY <1>2, <1>8, <1>10, <2>1, <2>5 DEF Learning
  <2>10. Numbering'
    BY <1>8, <2>5 DEF IInv, Numbering
  <2>11. HistoryNumbered'
    <3>1. LastObserved' = c
      BY <2>5 DEF LastObserved
    <3> QED BY <1>6, <2>3, <2>4, <3>1 DEF HistoryNumbered
  <2>12. FirstVectorIsInitial' /\ InitialCandidateExists'
    BY <1>8, <1>10, <2>1, <2>5 DEF IInv, FirstVectorIsInitial, InitialCandidateExists
  <2> QED BY <2>6, <2>7, <2>8, <2>9, <2>10, <2>11, <2>12 DEF IInv
<1> QED BY <1>12, <1>13

(* The locked phase has been quiet: learning starts again, or stays locked. *)
LEMMA LockedRetryStep ==
  ASSUME IInv, LockedRetry
  PROVE  IInv'
<1> DEFINE c == meta.current_iteration
           r == restore_once
           best == best_vec(r.best_fixed, r.trials)
           o == IF best = NoVec THEN r ELSE [r EXCEPT !.lock_best = FALSE]
           pools == IF best = NoVec THEN {globals.v_candidates}
                    ELSE enqueue_samples_around(globals.v_candidates)
<1>1. meta.phase = "LockedBest" /\ worker = None /\ LastObserved = c
  BY ResumedPhase DEF LockedRetry, LastObserved
<1>2. /\ meta \in TpeIterationMeta /\ c \in Nat /\ c > 0 /\ globals \in FeatureGlobalsMeta
      /\ globals.v_candidates \in Seq(Vectors)
      /\ mask \in VecMaskRuntimeMeta /\ mask.tpe_init_committed /\ hist \in TpeHistoryMeta
  BY <1>1 DEF IInv, TypeOK, Learning, TpeIterationMeta, FeatureGlobalsMeta
<1>3. /\ r \in TpeOptimizerState /\ r.restored_once
      /\ hist.trials = saved_trials(r.trials)
      /\ Len(r.trials) <= c
      /\ \A i \in DOMAIN r.trials : r.trials[i].iteration <= c
  <2>1. Len(hist.trials) <= c
    BY <1>1 DEF IInv, HistoryNumbered
  <2> QED BY <1>1, <2>1, Restored
<1> HIDE DEF r
<1>4. o \in TpeOptimizerState /\ o.restored_once /\ o.trials = r.trials
  BY <1>3 DEF TpeOptimizerState
<1>5. PICK pool \in pools :
        \E s \in suggest_next(pool, o.trials, o.lock_best) :
          LET g == [globals EXCEPT !.v_candidates = s.pool]
          IN IF s.next # NoVec
             THEN start_pending_recompute(meta, o, g, s.next)
             ELSE /\ opt' = IF s.locks
                            THEN [o EXCEPT !.lock_best = TRUE,
                                   !.best_fixed = locked_best_fixed(@, o.trials, o.last_vec)]
                            ELSE o
                  /\ globals' = g
                  /\ UNCHANGED <<meta, worker>>
  BY DEF LockedRetry, r
<1>6. UNCHANGED <<mask, hist, published, edges, explore_age, stopped>>
  BY DEF LockedRetry
<1>7. pool \in Seq(Vectors)
  BY <1>2, <1>5, EnqueueSamples
<1> HIDE DEF o, pools
<1>8. PICK s \in suggest_next(pool, o.trials, o.lock_best) :
        LET g == [globals EXCEPT !.v_candidates = s.pool]
        IN IF s.next # NoVec
           THEN start_pending_recompute(meta, o, g, s.next)
           ELSE /\ opt' = IF s.locks
                          THEN [o EXCEPT !.lock_best = TRUE,
                                 !.best_fixed = locked_best_fixed(@, o.trials, o.last_vec)]
                          ELSE o
                /\ globals' = g
                /\ UNCHANGED <<meta, worker>>
  BY <1>5
<1>9. s.next \in VecOrNone /\ s.pool \in Seq(Vectors)
  BY <1>4, <1>7, SuggestNext DEF TpeOptimizerState
<1> DEFINE g == [globals EXCEPT !.v_candidates = s.pool]
<1>10. g \in FeatureGlobalsMeta /\ g.current_v = globals.current_v
  BY <1>2, <1>9 DEF FeatureGlobalsMeta
<1>11. CASE s.next # NoVec
  <2>1. start_pending_recompute(meta, o, g, s.next)
    BY <1>8, <1>11
  <2>2. s.next \in Vectors
    BY <1>9, <1>11 DEF VecOrNone
  <2>3. c # 0
    BY <1>2
  <2>4. hist' \in TpeHistoryMeta /\ hist'.trials = saved_trials(o.trials)
    BY <1>2, <1>3, <1>4, <1>6
  <2>5. Len(o.trials) <= c /\ \A i \in DOMAIN o.trials : o.trials[i].iteration <= c
    BY <1>3, <1>4
  <2> HIDE DEF g
  <2> QED BY <1>1, <1>2, <1>4, <1>6, <1>10, <2>1, <2>2, <2>3, <2>4, <2>5, StartPending
<1>12. CASE s.next = NoVec
  <2> DEFINE bf == locked_best_fixed(o.best_fixed, o.trials, o.last_vec)
             lo == [o EXCEPT !.lock_best = TRUE, !.best_fixed = bf]
  <2>1. (opt' = lo \/ opt' = o) /\ globals' = g /\ UNCHANGED <<meta, worker>>
    BY <1>8, <1>12
  <2>2. bf \in VecOrNone
    BY <1>4, LockedBestFixed, TrialTypes, StageAssumption DEF TpeOptimizerState
  <2> HIDE DEF bf
  <2>3. lo \in TpeOptimizerState /\ lo.trials = o.trials /\ lo.restored_once
    BY <1>4, <2>2 DEF TpeOptimizerState
  <2> HIDE DEF lo, g
  <2>4. opt' \in TpeOptimizerState /\ opt'.trials = r.trials /\ opt'.restored_once
    BY <1>4, <2>1, <2>3
  <2>5. TypeOK'
    BY <1>6, <1>10, <2>1, <2>4 DEF IInv, TypeOK
  <2>6. WorkerIsCurrent' /\ Fresh' /\ HistoryDurable' /\ Exploring'
    BY <1>1, <1>3, <1>6, <2>1, <2>4 DEF WorkerIsCurrent, Fresh, HistoryDurable, Exploring
  <2>7. PublishedWindow' /\ Learning' /\ Numbering'
    BY <1>6, <1>10, <2>1 DEF IInv, PublishedWindow, Learning, Numbering
  <2>8. HistoryNumbered'
    <3>1. LastObserved' = c
      BY <1>1, <2>1 DEF LastObserved
    <3>2. Len(hist.trials) <= c
      BY <1>1 DEF IInv, HistoryNumbered
    <3> QED BY <1>3, <1>6, <2>4, <3>1, <3>2 DEF HistoryNumbered
  <2>9. FirstVectorIsInitial' /\ InitialCandidateExists'
    BY <1>6, <1>10, <2>1 DEF IInv, FirstVectorIsInitial, InitialCandidateExists
  <2> QED BY <2>5, <2>6, <2>7, <2>8, <2>9 DEF IInv
<1> QED BY <1>11, <1>12

(* The worker thread only changes its own status. *)
LEMMA WorkerStep ==
  ASSUME IInv, WorkerSend \/ WorkerPanic
  PROVE  IInv'
<1>1. worker # None /\ worker \in WeightRecomputeWorker
  BY DEF WorkerSend, WorkerPanic, IInv, TypeOK
<1>2. /\ worker' \in WeightRecomputeWorker
      /\ worker'.iteration = worker.iteration /\ worker'.vector = worker.vector
  BY <1>1 DEF WorkerSend, WorkerPanic, WeightRecomputeWorker
<1>3. UNCHANGED <<meta, globals, mask, hist, opt, published, edges, explore_age, stopped>>
  BY DEF WorkerSend, WorkerPanic
<1>4. TypeOK'
  BY <1>2, <1>3 DEF IInv, TypeOK
<1>5. /\ WorkerIsCurrent' /\ Fresh' /\ HistoryDurable' /\ PublishedWindow' /\ Exploring'
      /\ Learning' /\ Numbering' /\ FirstVectorIsInitial' /\ InitialCandidateExists'
  BY <1>1, <1>2, <1>3 DEF IInv, WorkerIsCurrent, Fresh, HistoryDurable, PublishedWindow, Exploring,
       Learning, Numbering, FirstVectorIsInitial, InitialCandidateExists
<1>6. HistoryNumbered'
  BY <1>3 DEF IInv, HistoryNumbered, LastObserved
<1> QED BY <1>4, <1>5, <1>6 DEF IInv

(* Time and new coverage leave the bookkeeping alone; edges only grow. *)
LEMMA EnvironmentStep ==
  ASSUME IInv, NewCoverage \/ Tick
  PROVE  IInv'
<1>1. /\ meta \in TpeIterationMeta /\ edges \in 0..MapSize /\ explore_age \in 0..ExploreTime
      /\ MapSize \in Nat /\ ExploreTime \in Nat /\ Period \in Nat /\ ReTpeThreshold \in Nat
  BY StageAssumption DEF IInv, TypeOK
<1>2. UNCHANGED <<globals, mask, hist, opt, worker, published, stopped>>
  BY DEF NewCoverage, Tick
<1>3. edges' \in 0..MapSize /\ edges <= edges'
  BY <1>1 DEF NewCoverage, Tick
<1>4. explore_age' \in 0..ExploreTime
  BY <1>1 DEF NewCoverage, Tick, Smaller
<1>5. /\ Aged(meta.active_start_age, Period) \in 0..Period \union {None}
      /\ Aged(meta.last_new_edges_age, ReTpeThreshold) \in 0..ReTpeThreshold \union {None}
  <2>1. \A n \in Nat : \A a \in 0..n : Smaller(a + 1, n) \in 0..n
    BY DEF Smaller
  <2>2. /\ meta.active_start_age \in 0..Period \union {None}
        /\ meta.last_new_edges_age \in 0..ReTpeThreshold \union {None}
    BY <1>1 DEF TpeIterationMeta
  <2> QED BY <1>1, <2>1, <2>2 DEF Aged
<1>6. /\ meta' \in TpeIterationMeta
      /\ meta'.phase = meta.phase
      /\ meta'.current_iteration = meta.current_iteration
      /\ meta'.active_iteration = meta.active_iteration
      /\ meta'.pending_iteration = meta.pending_iteration
      /\ meta'.active_start_edges = meta.active_start_edges
  <2>1. CASE NewCoverage
    BY <1>1, <2>1 DEF NewCoverage
  <2>2. CASE Tick
    <3>1. meta' = [meta EXCEPT !.active_start_age = Aged(meta.active_start_age, Period),
                               !.last_new_edges_age = Aged(meta.last_new_edges_age, ReTpeThreshold)]
      BY <2>2 DEF Tick
    <3> QED BY <1>1, <1>5, <3>1 DEF TpeIterationMeta
  <2> QED BY <2>1, <2>2
<1>7. TypeOK'
  BY <1>2, <1>3, <1>4, <1>6 DEF IInv, TypeOK
<1>8. /\ WorkerIsCurrent' /\ Fresh' /\ HistoryDurable' /\ PublishedWindow' /\ Exploring'
      /\ Learning' /\ FirstVectorIsInitial' /\ InitialCandidateExists'
  BY <1>2, <1>6 DEF IInv, WorkerIsCurrent, Fresh, HistoryDurable, PublishedWindow, Exploring,
       Learning, FirstVectorIsInitial, InitialCandidateExists
<1>9. Numbering'
  <2>1. meta.active_start_edges # None =>
          meta.active_start_edges \in 0..MapSize /\ meta.active_start_edges <= edges
    BY <1>1 DEF IInv, Numbering, TpeIterationMeta
  <2>2. meta.active_start_edges # None => meta.active_start_edges <= edges'
    BY <1>1, <1>3, <2>1
  <2> QED BY <1>6, <2>2 DEF IInv, Numbering
<1>10. HistoryNumbered'
  <2>1. LastObserved' = LastObserved
    BY <1>6 DEF LastObserved
  <2> QED BY <1>2, <1>6, <2>1 DEF IInv, HistoryNumbered
<1> QED BY <1>7, <1>8, <1>9, <1>10 DEF IInv

(* A restart keeps the metadata and forgets the optimizer and the worker. *)
LEMMA RestartStep ==
  ASSUME IInv, Restart
  PROVE  IInv'
<1>1. /\ mask \in VecMaskRuntimeMeta /\ globals \in FeatureGlobalsMeta
      /\ mask.candidate_file \in Seq(Vectors)
  BY StageAssumption DEF IInv, TypeOK, VecMaskRuntimeMeta
<1>2. /\ opt' = NewTpeStage /\ worker' = None /\ explore_age' = explore_age
      /\ UNCHANGED <<meta, hist, published, edges, stopped>>
      /\ mask' = resumed_mask
      /\ globals' = IF reloads_candidates
                    THEN [globals EXCEPT !.v_candidates = mask.candidate_file] ELSE globals
  BY DEF Restart, resumed_explore_age
<1>3. opt' \in TpeOptimizerState /\ opt'.trials = <<>> /\ ~opt'.restored_once
  <2>1. <<>> \in Seq(Trial)
    OBVIOUS
  <2> QED BY <1>2, <2>1 DEF NewTpeStage, TpeOptimizerState, VecOrNone
<1>4. globals' \in FeatureGlobalsMeta /\ globals'.current_v = globals.current_v
  BY <1>1, <1>2 DEF FeatureGlobalsMeta
<1>5. /\ mask' \in VecMaskRuntimeMeta
      /\ mask'.auto_credit = mask.auto_credit
      /\ mask'.candidate_file = mask.candidate_file
      /\ mask'.tpe_init_committed = mask.tpe_init_committed
      /\ mask'.normalized_credit_init_v = mask.normalized_credit_init_v
      /\ mask.tpe_init_committed => mask' = mask
  BY <1>1, <1>2 DEF resumed_mask, VecMaskRuntimeMeta
<1>6. TypeOK'
  BY <1>2, <1>3, <1>4, <1>5 DEF IInv, TypeOK
<1>7. WorkerIsCurrent' /\ Fresh' /\ HistoryDurable'
  BY <1>2, <1>3 DEF WorkerIsCurrent, Fresh, HistoryDurable
<1>8. PublishedWindow' /\ Learning' /\ Numbering' /\ InitialCandidateExists'
  BY <1>2, <1>4, <1>5 DEF IInv, PublishedWindow, Learning, Numbering, InitialCandidateExists
<1>9. Exploring'
  <2> SUFFICES ASSUME meta.phase = "Explore" PROVE Exploring'
    BY <1>2 DEF Exploring
  <2>1. /\ ~mask.tpe_init_committed
        /\ mask.auto_credit => ~mask.candidate_file_loaded
        /\ mask.candidate_file_loaded =>
             mask.candidate_file # <<>> /\ globals.v_candidates = mask.candidate_file
        /\ meta.current_iteration = 0 /\ globals.current_v = NoVec /\ hist.trials = <<>>
    BY DEF IInv, Exploring
  <2>2. CASE reloads_candidates /\ mask.candidate_file # <<>>
    <3>1. mask' = [mask EXCEPT !.candidate_file_loaded = TRUE]
      BY <1>2, <2>1, <2>2 DEF resumed_mask
    <3>2. globals'.v_candidates = mask.candidate_file
      BY <1>1, <1>2, <2>2 DEF FeatureGlobalsMeta
    <3>3. ~mask.auto_credit
      BY <2>2 DEF reloads_candidates
    <3> QED BY <1>2, <1>4, <1>5, <2>1, <2>2, <3>2, <3>3 DEF Exploring
  <2>3. CASE ~(reloads_candidates /\ mask.candidate_file # <<>>)
    <3>1. mask' = mask
      BY <1>2, <2>3 DEF resumed_mask
    <3>2. mask.candidate_file_loaded => ~reloads_candidates
      BY <2>1 DEF reloads_candidates
    <3> QED BY <1>2, <1>4, <2>1, <3>1, <3>2 DEF Exploring
  <2> QED BY <2>2, <2>3
<1>10. HistoryNumbered'
  <2>1. LastObserved' = LastObserved /\ DOMAIN opt'.trials = {}
    BY <1>2, <1>3 DEF LastObserved
  <2> QED BY <1>2, <2>1 DEF IInv, HistoryNumbered
<1>11. FirstVectorIsInitial'
  <2>1. meta.current_iteration = 1 => mask' = mask
    BY <1>5 DEF IInv, Exploring, Learning
  <2> QED BY <1>2, <1>4, <2>1 DEF IInv, FirstVectorIsInitial
<1> QED BY <1>6, <1>7, <1>8, <1>9, <1>10, <1>11 DEF IInv

(* Every step preserves the invariant. *)
LEMMA NextIInv == IInv /\ [Next]_vars => IInv'
<1> SUFFICES ASSUME IInv, [Next]_vars PROVE IInv'
  OBVIOUS
<1>1. CASE perform
  BY <1>1, WaitingStep, LockedProgressStep, ExploreDoneStep, PollResultStep,
     PollDisconnectedStep, WindowCloseStep, LockedRetryStep DEF perform
<1>2. CASE WorkerSend \/ WorkerPanic
  BY <1>2, WorkerStep
<1>3. CASE NewCoverage \/ Tick
  BY <1>3, EnvironmentStep
<1>4. CASE Restart
  BY <1>4, RestartStep
<1>5. CASE Stopped \/ UNCHANGED vars
  <2>1. UNCHANGED vars
    BY <1>5 DEF Stopped
  <2>2. TypeOK' /\ WorkerIsCurrent' /\ Fresh' /\ HistoryDurable' /\ PublishedWindow'
    BY <2>1 DEF vars, IInv, TypeOK, WorkerIsCurrent, Fresh, HistoryDurable, PublishedWindow
  <2>3. /\ Exploring' /\ Learning' /\ Numbering' /\ HistoryNumbered' /\ FirstVectorIsInitial'
        /\ InitialCandidateExists'
    BY <2>1 DEF vars, IInv, Exploring, Learning, Numbering, HistoryNumbered, LastObserved,
                FirstVectorIsInitial, InitialCandidateExists
  <2> QED BY <2>2, <2>3 DEF IInv
<1> QED BY <1>1, <1>2, <1>3, <1>4, <1>5 DEF Next

-----------------------------------------------------------------------------

(* The invariant holds in every reachable state. *)
THEOREM Invariance == Spec => []IInv
BY InitIInv, NextIInv, PTL DEF Spec

(* The metadata, the optimizer and the worker always have their types. *)
THEOREM TypeCorrect == Spec => []TypeOK
<1>1. IInv => TypeOK
  BY DEF IInv
<1> QED BY <1>1, Invariance, PTL

(* A live worker computes the current iteration and vector: poll_pending     *)
(* never discards a result, and no second worker is ever asked for.          *)
THEOREM WorkerCurrent == Spec => []WorkerIsCurrent
<1>1. IInv => WorkerIsCurrent
  BY DEF IInv
<1> QED BY <1>1, Invariance, PTL

(* No trial the optimizer has observed is missing from the saved metadata.   *)
THEOREM Durable == Spec => []HistoryDurable
<1>1. IInv => HistoryDurable
  BY DEF IInv
<1> QED BY <1>1, Invariance, PTL

(* A window whose recompute was not cut short measures, and will record, the *)
(* vector whose weights poll_pending published.                              *)
THEOREM WindowsMeasurePublished == Spec => []WindowMeasuresPublished
<1>1. IInv => WindowMeasuresPublished
  <2> SUFFICES ASSUME IInv, phase_of_perform \in {"ActiveWindow", "LockedBest"},
                      meta.pending_iteration = None
               PROVE  /\ published # None
                      /\ published.vector = globals.current_v
                      /\ published.iteration = meta.active_iteration
                      /\ meta.active_iteration = meta.current_iteration
    BY DEF WindowMeasuresPublished
  <2>1. meta.current_iteration \in Nat
    BY DEF IInv, TypeOK, TpeIterationMeta
  <2>2. meta.phase \in {"ActiveWindow", "LockedBest"}
    BY <2>1, ResumedPhase, StageAssumption DEF IInv, Numbering
  <2> QED BY <2>2 DEF IInv, PublishedWindow
<1> QED BY <1>1, Invariance, PTL

(* In such a window every earlier trial has a smaller iteration, also when a *)
(* restart has renumbered the trials, so observe_trial does not merge the    *)
(* rewards of two different vectors.                                         *)
THEOREM OlderTrials == Spec => []TrialsAreOlder
<1>1. IInv => TrialsAreOlder
  <2> SUFFICES ASSUME IInv, phase_of_perform = "ActiveWindow", meta.pending_iteration = None,
                      NEW i \in DOMAIN restore_once.trials
               PROVE  restore_once.trials[i].iteration < meta.active_iteration
    BY DEF TrialsAreOlder
  <2>1. meta.current_iteration \in Nat
    BY DEF IInv, TypeOK, TpeIterationMeta
  <2>2. meta.phase = "ActiveWindow"
    BY <2>1, ResumedPhase, StageAssumption DEF IInv, Numbering
  <2>3. meta.active_iteration = meta.current_iteration
    BY <2>2 DEF IInv, PublishedWindow
  <2>4. restore_once.trials[i].iteration <= meta.current_iteration - 1
    BY <2>2, Restored DEF LastObserved
  <2>5. restore_once.trials[i].iteration \in Nat
    <3>1. restore_once.trials \in Seq(Trial)
      BY Restored DEF TpeOptimizerState
    <3>2. restore_once.trials[i] \in Trial
      BY <3>1
    <3> QED BY <3>2 DEF Trial
  <2> QED BY <2>1, <2>3, <2>4, <2>5
<1> QED BY <1>1, Invariance, PTL

(* The first vector applied is the one the start-up decided on, and there    *)
(* always is one.                                                            *)
THEOREM InitialVector == Spec => [](FirstVectorIsInitial /\ InitialCandidateExists)
<1>1. IInv => FirstVectorIsInitial /\ InitialCandidateExists
  BY DEF IInv
<1> QED BY <1>1, Invariance, PTL
=============================================================================
